---- MODULE Spec2Model ----
(***************************************************************************)
(* Ontology consolidation engines of the hmi_ontology repository:          *)
(*   StrategicOntologyMerger  (2nd ontology/src/strategic-ontology-merger) *)
(*   ImprovedOntologyMerger   (adaptive_hmi_ontology_ontogenia/src)        *)
(* Text is a sequence of one-character strings, so that lowercasing,       *)
(* prefix/suffix stripping and substring tests are computed, not assumed.  *)
(* An RDF term is a record [k, v]: k is "uri", "bnode", "lit" (plain       *)
(* literal) or "lit_en" (literal tagged lang="en"); v is its text.         *)
(* A statement is a triple <<s, p, o>>.  A source graph is the sequence of *)
(* its distinct statements in document order (the order in which the       *)
(* store's insertion-ordered indexes were filled); the merged graph is a   *)
(* set.                                                                    *)
(***************************************************************************)
EXTENDS Integers, Sequences, FiniteSets, TLC

(* ------------------------------ bounds --------------------------------- *)
\* longest list of sources handed to one merge call
MaxSources == 2
\* number of merge_ontologies calls made on one StrategicOntologyMerger
MaxCalls == 2
\* number of add_ontology / merge_ontologies calls made on one
\* ImprovedOntologyMerger
MaxOps == 3

(* ------------------------------- text ---------------------------------- *)
UpperChars == <<"A","B","C","D","E","F","G","H","I","J","K","L","M",
                "N","O","P","Q","R","S","T","U","V","W","X","Y","Z">>
LowerChars == <<"a","b","c","d","e","f","g","h","i","j","k","l","m",
                "n","o","p","q","r","s","t","u","v","w","x","y","z">>

LowerChar(c) ==
    IF \E i \in 1..Len(UpperChars) : UpperChars[i] = c
    THEN LowerChars[CHOOSE i \in 1..Len(UpperChars) : UpperChars[i] = c]
    ELSE c

\* str.lower()
ToLower(s) == [i \in 1..Len(s) |-> LowerChar(s[i])]

StartsWith(s, pre) == Len(pre) <= Len(s) /\ SubSeq(s, 1, Len(pre)) = pre
EndsWith(s, suf) == Len(suf) <= Len(s) /\ SubSeq(s, Len(s) - Len(suf) + 1, Len(s)) = suf
DropFirst(s, n) == SubSeq(s, n + 1, Len(s))
DropLast(s, n) == SubSeq(s, 1, Len(s) - n)

\* Python's `sub in s`
Contains(s, sub) ==
    \E i \in 0..(Len(s) - Len(sub)) : SubSeq(s, i + 1, i + Len(sub)) = sub

IsSpace(c) == c = " "

\* str.strip()
RECURSIVE StripLeft(_)
StripLeft(s) == IF s # <<>> /\ IsSpace(Head(s)) THEN StripLeft(Tail(s)) ELSE s
RECURSIVE StripRight(_)
StripRight(s) ==
    IF s # <<>> /\ IsSpace(s[Len(s)]) THEN StripRight(DropLast(s, 1)) ELSE s
Strip(s) == StripRight(StripLeft(s))

\* str.replace(old, new): every non-overlapping occurrence, left to right
RECURSIVE Replace(_, _, _)
Replace(s, old, new) ==
    IF Len(s) < Len(old) THEN s
    ELSE IF StartsWith(s, old)
         THEN new \o Replace(DropFirst(s, Len(old)), old, new)
         ELSE <<Head(s)>> \o Replace(Tail(s), old, new)

\* str.split('#')[-1]
RECURSIVE AfterLastHash(_)
AfterLastHash(s) ==
    IF \E i \in 1..Len(s) : s[i] = "#"
    THEN AfterLastHash(DropFirst(s, CHOOSE i \in 1..Len(s) : s[i] = "#"))
    ELSE s

(* ------------------- normalize_name (strategic merger) ------------------ *)
StopPrefixes == << <<"h","a","s">>, <<"i","s">>, <<"o","f">>, <<"t","o">>,
                   <<"f","o","r">>, <<"w","i","t","h">>, <<"b","y">> >>
StopSuffixes == << <<"s","t","a","t","e">>, <<"t","y","p","e">>,
                   <<"s","y","s","t","e","m">>, <<"m","e","t","h","o","d">>,
                   <<"p","r","o","p","e","r","t","y">> >>

\* re.sub(r'^(has|is|of|to|for|with|by)_?', '', name): the first alternative
\* that matches at position 0, then an optional underscore
StripStopPrefix(name) ==
    IF \E i \in 1..Len(StopPrefixes) : StartsWith(name, StopPrefixes[i])
    THEN LET i == CHOOSE j \in 1..Len(StopPrefixes) :
                      /\ StartsWith(name, StopPrefixes[j])
                      /\ \A h \in 1..(j - 1) : ~StartsWith(name, StopPrefixes[h])
             rest == DropFirst(name, Len(StopPrefixes[i]))
         IN  IF rest # <<>> /\ Head(rest) = "_" THEN Tail(rest) ELSE rest
    ELSE name

\* re.sub(r'_?(state|type|system|method|property)$', '', name): the leftmost
\* match takes the underscore in front of the suffix when there is one
StripStopSuffix(name) ==
    IF \E i \in 1..Len(StopSuffixes) : EndsWith(name, StopSuffixes[i])
    THEN LET i == CHOOSE j \in 1..Len(StopSuffixes) : EndsWith(name, StopSuffixes[j])
             rest == DropLast(name, Len(StopSuffixes[i]))
         IN  IF rest # <<>> /\ rest[Len(rest)] = "_" THEN DropLast(rest, 1) ELSE rest
    ELSE name

normalize_name(name) ==
    IF name = <<>> THEN <<>>
    ELSE Strip(StripStopSuffix(StripStopPrefix(ToLower(name))))

(* ------------------------------- terms --------------------------------- *)
URIRef(text) == [k |-> "uri", v |-> text]
BNode(text) == [k |-> "bnode", v |-> text]
Literal(text) == [k |-> "lit", v |-> text]
LiteralEn(text) == [k |-> "lit_en", v |-> text]

IsURIRef(t) == t.k = "uri"
IsBNode(t) == t.k = "bnode"
IsLiteral(t) == t.k \in {"lit", "lit_en"}

RDF_type == URIRef(<<"r","d","f","#","t","y","p","e">>)
RDFS_label == URIRef(<<"r","d","f","s","#","l","a","b","e","l">>)
RDFS_comment == URIRef(<<"r","d","f","s","#","c","o","m","m","e","n","t">>)
RDFS_subClassOf == URIRef(<<"r","d","f","s","#","s","u","b","C","l","a","s","s","O","f">>)
OWL_Class == URIRef(<<"o","w","l","#","C","l","a","s","s">>)
OWL_ObjectProperty ==
    URIRef(<<"o","w","l","#","O","b","j","e","c","t","P","r","o","p","e","r","t","y">>)
OWL_DatatypeProperty ==
    URIRef(<<"o","w","l","#","D","a","t","a","t","y","p","e","P","r","o","p","e","r","t","y">>)
OWL_Ontology == URIRef(<<"o","w","l","#","O","n","t","o","l","o","g","y">>)
OWL_Restriction == URIRef(<<"o","w","l","#","R","e","s","t","r","i","c","t","i","o","n">>)
OWL_inverseOf == URIRef(<<"o","w","l","#","i","n","v","e","r","s","e","O","f">>)

\* base_uri of the merged ontology, and base_uri.rstrip("#")
BaseUri == <<"e","#">>
RECURSIVE RStripHash(_)
RStripHash(text) ==
    IF text # <<>> /\ text[Len(text)] = "#" THEN RStripHash(DropLast(text, 1)) ELSE text
StrategicOntologyUri == URIRef(RStripHash(BaseUri))
StrategicDeclaration == <<StrategicOntologyUri, RDF_type, OWL_Ontology>>

\* a node of the sources' own namespace
E(local) == URIRef(BaseUri \o local)

(* --------------------------- source documents --------------------------- *)
\* A document is what the Turtle loader is given: it either parses to a graph
\* (ok, with the statements in document order) or raises a parse error.
Doc(g) == [ok |-> TRUE, g |-> g]
BadDoc == [ok |-> FALSE, g |-> <<>>]

cNap == E(<<"N","a","p">>)
cNapState == E(<<"N","a","p","S","t","a","t","e">>)
cDoze == E(<<"D","o","z","e">>)
cState == E(<<"S","t","a","t","e">>)
cType == E(<<"T","y","p","e">>)
cRest == E(<<"R","e","s","t">>)
pHasNap == E(<<"h","a","s","N","a","p">>)
pNapProperty == E(<<"N","a","p","P","r","o","p","e","r","t","y">>)
pDetectsNap == E(<<"d","e","t","e","c","t","s","N","a","p">>)
pDetectedByNap == E(<<"d","e","t","e","c","t","e","d","B","y","N","a","p">>)
bR == BNode(<<"r">>)
lDoze == Literal(<<"D","o","z","e">>)
lRest == Literal(<<"R","e","s","t">>)
lText == Literal(<<"r","e","s","t","s">>)
lFive == Literal(<<"5">>)

\* two classes of one normalized name and equal score
DocNapTie == Doc(<< <<cNap, RDF_type, OWL_Class>>,
                    <<cNapState, RDF_type, OWL_Class>> >>)
\* the node Nap under another display name, next to a richer class Doze
DocDoze == Doc(<< <<cNap, RDF_type, OWL_Class>>,
                  <<cNap, RDFS_label, lDoze>>,
                  <<cDoze, RDF_type, OWL_Class>>,
                  <<cDoze, RDFS_label, lDoze>>,
                  <<cDoze, RDFS_comment, lText>>,
                  <<cDoze, RDFS_subClassOf, cNapState>> >>)
\* two properties of one normalized name, one used as a predicate
DocProps == Doc(<< <<pHasNap, RDF_type, OWL_ObjectProperty>>,
                   <<pHasNap, RDFS_comment, lText>>,
                   <<pNapProperty, RDF_type, OWL_DatatypeProperty>>,
                   <<cNap, pNapProperty, lFive>> >>)
\* a class restricted through an anonymous node
DocRestriction == Doc(<< <<cNapState, RDF_type, OWL_Class>>,
                         <<cNapState, RDFS_subClassOf, bR>>,
                         <<bR, RDF_type, OWL_Restriction>> >>)
\* a forward/backward named pair of properties
DocInverse == Doc(<< <<pDetectsNap, RDF_type, OWL_ObjectProperty>>,
                     <<pDetectedByNap, RDF_type, OWL_ObjectProperty>> >>)
\* classes whose names are stop suffixes only
DocStops == Doc(<< <<cState, RDF_type, OWL_Class>>,
                   <<cType, RDF_type, OWL_Class>> >>)
\* one labelled class alone
DocRest == Doc(<< <<cRest, RDF_type, OWL_Class>>,
                  <<cRest, RDFS_label, lRest>> >>)

\* two properties of one normalized name, declared inverse of each other
DocSelfInverse == Doc(<< <<pHasNap, RDF_type, OWL_ObjectProperty>>,
                         <<pNapProperty, RDF_type, OWL_ObjectProperty>>,
                         <<pHasNap, OWL_inverseOf, pNapProperty>> >>)
\* an anonymous class labelled as the class Nap is named
DocAnonymous == Doc(<< <<bR, RDF_type, OWL_Class>>,
                       <<bR, RDFS_label, Literal(<<"N","a","p">>)>>,
                       <<cNap, RDF_type, OWL_Class>>,
                       <<cNap, RDFS_subClassOf, bR>> >>)

\* a property declared inverse of two others
DocTwoInverses == Doc(<< <<pNapProperty, RDF_type, OWL_ObjectProperty>>,
                         <<pNapProperty, OWL_inverseOf, pDetectsNap>>,
                         <<pNapProperty, OWL_inverseOf, pDetectedByNap>> >>)

\* the class Nap, unlabelled, next to a richer class of the same
\* normalized name
DocNapRich == Doc(<< <<cNap, RDF_type, OWL_Class>>,
                     <<cNapState, RDF_type, OWL_Class>>,
                     <<cNapState, RDFS_comment, lText>>,
                     <<cNapState, RDFS_subClassOf, cRest>>,
                     <<cNapState, RDFS_subClassOf, cDoze>> >>)

StrategicDocs ==
    {DocNapTie, DocDoze, DocProps, DocRestriction, DocInverse, DocStops, DocRest,
     DocSelfInverse, DocAnonymous, DocTwoInverses, DocNapRich, BadDoc}

\* all lists of at most n documents
SeqsUpTo(S, n) == UNION {[1..m -> S] : m \in 0..n}

(* ------------------------------ the loader ------------------------------ *)
DigitChars == <<"1","2","3","4","5","6","7","8","9">>

\* Graph().parse(data=content): every parse mints its own anonymous nodes, so
\* the anonymous nodes of the i-th document of a call are tagged with i.
ParseTerm(t, i) == IF IsBNode(t) THEN BNode(t.v \o <<DigitChars[i]>>) ELSE t
Parse(doc, i) ==
    [n \in 1..Len(doc.g) |->
        <<ParseTerm(doc.g[n][1], i), ParseTerm(doc.g[n][2], i), ParseTerm(doc.g[n][3], i)>>]

(* ----------------------------- graph queries ---------------------------- *)
Range(f) == {f[i] : i \in DOMAIN f}
Statements(g) == Range(g)

\* graph.subjects(p, o), in index order
RECURSIVE SubjectsSeq(_, _, _)
SubjectsSeq(g, p, o) ==
    IF g = <<>> THEN <<>>
    ELSE IF Head(g)[2] = p /\ Head(g)[3] = o
         THEN <<Head(g)[1]>> \o SubjectsSeq(Tail(g), p, o)
         ELSE SubjectsSeq(Tail(g), p, o)

\* graph.triples((s, p, None)) objects, in index order
RECURSIVE ObjectsSeq(_, _, _)
ObjectsSeq(g, s, p) ==
    IF g = <<>> THEN <<>>
    ELSE IF Head(g)[1] = s /\ Head(g)[2] = p
         THEN <<Head(g)[3]>> \o ObjectsSeq(Tail(g), s, p)
         ELSE ObjectsSeq(Tail(g), s, p)

\* Python's None where a text is expected: no text has an element of this length
NoText == <<"None">>

\* get_label / get_comment: the text of the first literal value, or None
FirstLiteralText(objs) ==
    IF \E i \in 1..Len(objs) : IsLiteral(objs[i])
    THEN objs[CHOOSE i \in 1..Len(objs) :
                 IsLiteral(objs[i]) /\ \A j \in 1..(i - 1) : ~IsLiteral(objs[j])].v
    ELSE NoText
get_label(g, uri) == FirstLiteralText(ObjectsSeq(g, uri, RDFS_label))
get_comment(g, uri) == FirstLiteralText(ObjectsSeq(g, uri, RDFS_comment))

\* Python's `label or fallback`: None and the empty string are both falsy
OrElse(text, fallback) == IF text = NoText \/ text = <<>> THEN fallback ELSE text

\* all orders in which a set can be iterated
Perms(S) == {f \in [1..Cardinality(S) -> S] : \A x \in S : \E i \in DOMAIN f : f[i] = x}

(* ------------------ StrategicOntologyMerger: matcher -------------------- *)
\* the (uri, display name) entries one graph contributes, for the subjects
\* given in iteration order
EntriesOf(g, subjects) ==
    [n \in 1..Len(subjects) |->
        [uri |-> subjects[n],
         name |-> OrElse(get_label(g, subjects[n]), AfterLastHash(subjects[n].v))]]

\* every subject taken, anonymous ones too
SelectAllSubjects(subjects) == subjects

SelectURIRefs(subjects) == SelectSeq(subjects, IsURIRef)

\* find_similar_classes, first loop: all_classes as the list of its entries in
\* the order they are appended
RECURSIVE ClassEntries(_)
ClassEntries(ontologies) ==
    IF ontologies = <<>> THEN <<>>
    ELSE LET n == Len(ontologies)
             g == ontologies[n]
         IN  ClassEntries(SubSeq(ontologies, 1, n - 1))
             \o EntriesOf(g, SelectURIRefs(SubjectsSeq(g, RDF_type, OWL_Class)))

\* the keys of a dict filled entry by entry: the normalized names in the order
\* of their first entry
RECURSIVE KeysInOrder(_)
KeysInOrder(entries) ==
    IF entries = <<>> THEN <<>>
    ELSE LET n == Len(entries)
             front == KeysInOrder(SubSeq(entries, 1, n - 1))
             key == normalize_name(entries[n].name)
         IN  IF \E i \in 1..Len(front) : front[i] = key THEN front ELSE Append(front, key)

EntriesNamed(entries, key) ==
    SelectSeq(entries, LAMBDA e : normalize_name(e.name) = key)

\* second loop of find_similar_classes / find_similar_properties: a name with
\* more than one entry becomes a group, the set of its entries' nodes
Groups(entries) ==
    LET keys == KeysInOrder(entries)
        kept == SelectSeq(keys, LAMBDA key : Len(EntriesNamed(entries, key)) > 1)
    IN  [n \in 1..Len(kept) |->
            [name |-> kept[n],
             members |-> {e.uri : e \in Range(EntriesNamed(entries, kept[n]))}]]

find_similar_classes(ontologies) == Groups(ClassEntries(ontologies))

\* the properties of one graph: set(... ObjectProperty) | set(... DatatypeProperty)
PropertySubjects(g) ==
    {t[1] : t \in {u \in Statements(g) :
                      u[2] = RDF_type /\ u[3] \in {OWL_ObjectProperty, OWL_DatatypeProperty}}}

\* find_similar_properties, first loop: a Python set is iterated in hash
\* order, so each graph's properties may come in any order
RECURSIVE PropertyEntryLists(_)
PropertyEntryLists(ontologies) ==
    IF ontologies = <<>> THEN {<<>>}
    ELSE LET n == Len(ontologies)
             g == ontologies[n]
         IN  {front \o EntriesOf(g, SelectURIRefs(order)) :
                 front \in PropertyEntryLists(SubSeq(ontologies, 1, n - 1)),
                 order \in Perms(PropertySubjects(g))}

(* ------------- StrategicOntologyMerger: inverse candidates -------------- *)
InversePatterns ==
    << << <<"h","a","s">>, <<"i","s","O","f">> >>,
       << <<"d","e","t","e","c","t","s">>, <<"d","e","t","e","c","t","e","d","B","y">> >>,
       << <<"o","b","s","e","r","v","e","s">>, <<"o","b","s","e","r","v","e","d","B","y">> >>,
       << <<"a","c","t","i","v","a","t","e","s">>,
          <<"a","c","t","i","v","a","t","e","d","B","y">> >>,
       << <<"r","e","s","p","o","n","d","s">>, <<"r","e","s","p","o","n","d","s","T","o">> >>,
       << <<"s","i","g","n","a","l","s">>, <<"s","i","g","n","a","l","e","d","B","y">> >>,
       << <<"i","n","d","i","c","a","t","e","s">>,
          <<"i","n","d","i","c","a","t","e","d","B","y">> >>,
       << <<"c","l","a","s","s","i","f","i","e","s">>,
          <<"c","l","a","s","s","i","f","i","e","d","B","y">> >>,
       << <<"a","n","a","l","y","z","e","s">>, <<"a","n","a","l","y","z","e","d","B","y">> >> >>

\* all_properties.items() flattened: the entries, key by key
RECURSIVE EntriesByKey(_, _)
EntriesByKey(entries, keys) ==
    IF keys = <<>> THEN <<>>
    ELSE EntriesNamed(entries, Head(keys)) \o EntriesByKey(entries, Tail(keys))

\* the entries whose lowercased full name contains `wanted`
Matching(byKey, wanted) == SelectSeq(byKey, LAMBDA e : Contains(ToLower(e.name), wanted))

\* find_inverse_candidates: the candidates, pattern by pattern
RECURSIVE CandidatesFrom(_, _, _)
CandidatesFrom(prop_lower, byKey, k) ==
    IF k > Len(InversePatterns) THEN <<>>
    ELSE LET forward == InversePatterns[k][1]
             backward == InversePatterns[k][2]
             here == IF Contains(prop_lower, forward)
                     THEN Matching(byKey, Replace(prop_lower, forward, backward))
                     ELSE IF Contains(prop_lower, backward)
                          THEN Matching(byKey, Replace(prop_lower, backward, forward))
                          ELSE <<>>
         IN  here \o CandidatesFrom(prop_lower, byKey, k + 1)
find_inverse_candidates(prop_name, byKey) == CandidatesFrom(ToLower(prop_name), byKey, 1)

MapPut(m, key, val) == [x \in (DOMAIN m) \cup {key} |-> IF x = key THEN val ELSE m[x]]
EmptyMap == [x \in {} |-> x]

\* find_similar_properties, second loop: inverse_properties[prop] is overwritten
\* by every candidate, so the last candidate of the last entry of a node stays
RECURSIVE RecordInverses(_, _, _, _)
RecordInverses(inverse, byKey, all, n) ==
    IF n > Len(byKey) THEN inverse
    ELSE LET cands == find_inverse_candidates(byKey[n].name, all)
         IN  RecordInverses(IF cands = <<>> THEN inverse
                            ELSE MapPut(inverse, byKey[n].uri, cands[Len(cands)].uri),
                            byKey, all, n + 1)

(* -------------- StrategicOntologyMerger: canonical selector ------------- *)
CountSubject(g, e) == Cardinality({n \in 1..Len(g) : g[n][1] = e})
HasValue(g, e, p) == \E n \in 1..Len(g) : g[n][1] = e /\ g[n][2] = p

RECURSIVE Score(_, _)
Score(e, ontologies) ==
    IF ontologies = <<>> THEN 0
    ELSE LET g == Head(ontologies)
         IN  CountSubject(g, e)
             + (IF HasValue(g, e, RDFS_label) THEN 2 ELSE 0)
             + (IF HasValue(g, e, RDFS_comment) THEN 2 ELSE 0)
             + Score(e, Tail(ontologies))

\* a selector that ignores the scores and keeps the head of the list
choose_first_entity(entities, ontologies) == entities[1]

\* max(entity_scores.items(), key=score)[0]: the first entity, in the order of
\* the list, among those of greatest score
choose_canonical_entity(entities, ontologies) ==
    LET best == CHOOSE i \in 1..Len(entities) :
                    /\ \A j \in 1..Len(entities) :
                          Score(entities[j], ontologies) <= Score(entities[i], ontologies)
                    /\ \A j \in 1..(i - 1) :
                          Score(entities[j], ontologies) < Score(entities[i], ontologies)
    IN  entities[best]

(* ---------------- StrategicOntologyMerger: entity mapping --------------- *)
apply_mapping(entity, cm, pm) ==
    IF entity \in DOMAIN cm THEN cm[entity]
    ELSE IF entity \in DOMAIN pm THEN pm[entity]
    ELSE entity

\* for x in members: if x != canonical: mapping[x] = canonical
MapAllTo(m, members, canonical) ==
    [x \in (DOMAIN m) \cup (members \ {canonical}) |->
        IF x \in members \ {canonical} THEN canonical ELSE m[x]]

\* the groups in the order create_entity_mappings walks them: classes first
TaggedGroups(sc, sp) ==
    [n \in 1..(Len(sc) + Len(sp)) |->
        IF n <= Len(sc) THEN [kind |-> "class", name |-> sc[n].name, members |-> sc[n].members]
        ELSE [kind |-> "property", name |-> sp[n - Len(sc)].name,
              members |-> sp[n - Len(sc)].members]]

\* one pass of a loop of create_entity_mappings, `order` being list(the set)
MapGroup(maps, grp, order, ontologies) ==
    IF Len(order) > 1
    THEN LET canonical == choose_canonical_entity(order, ontologies)
         IN  IF grp.kind = "class"
             THEN [maps EXCEPT !.cm = MapAllTo(maps.cm, grp.members, canonical)]
             ELSE [maps EXCEPT !.pm = MapAllTo(maps.pm, grp.members, canonical)]
    ELSE maps

(* ------------------- StrategicOntologyMerger: rewriter ------------------ *)
\* a rewriter that forgets the predicate position
MapStatementSkippingPredicate(t, cm, pm) ==
    <<apply_mapping(t[1], cm, pm),
      t[2],
      IF IsURIRef(t[3]) THEN apply_mapping(t[3], cm, pm) ELSE t[3]>>

MapStatement(t, cm, pm) ==
    <<apply_mapping(t[1], cm, pm),
      apply_mapping(t[2], cm, pm),
      IF IsURIRef(t[3]) THEN apply_mapping(t[3], cm, pm) ELSE t[3]>>

add_graph_with_mappings(merged, g, cm, pm) ==
    merged \cup {MapStatement(t, cm, pm) : t \in Statements(g)}

(* ------------------ StrategicOntologyMerger: inferencer ----------------- *)
\* declarations added for every recorded pair, self-inverse ones included
add_every_inverse_declaration(merged, inverse, cm, pm) ==
    merged \cup
    {<<apply_mapping(prop1, cm, pm), OWL_inverseOf, apply_mapping(inverse[prop1], cm, pm)>> :
        prop1 \in DOMAIN inverse}

add_inverse_property_declarations(merged, inverse, cm, pm) ==
    merged \cup
    {<<apply_mapping(prop1, cm, pm), OWL_inverseOf, apply_mapping(inverse[prop1], cm, pm)>> :
        prop1 \in {x \in DOMAIN inverse :
                      apply_mapping(x, cm, pm) # apply_mapping(inverse[x], cm, pm)}}

\* clean_redundant_restrictions: the scan finds the restrictions but never
\* appends to restrictions_to_remove
restrictions_to_remove(merged) == {}
clean_redundant_restrictions(merged) == merged \ restrictions_to_remove(merged)

(* ------------------ StrategicOntologyMerger: statistics ----------------- *)
SubjectsOf(graph, p, o) == {t[1] : t \in {u \in graph : u[2] = p /\ u[3] = o}}

\* statistics that leave the ontology declaration out of the total
get_statistics_of_sources(merged, cm, pm) ==
    [classes |-> Cardinality(SubjectsOf(merged, RDF_type, OWL_Class)),
     object_properties |-> Cardinality(SubjectsOf(merged, RDF_type, OWL_ObjectProperty)),
     datatype_properties |-> Cardinality(SubjectsOf(merged, RDF_type, OWL_DatatypeProperty)),
     inverse_properties |-> Cardinality({t[1] : t \in {u \in merged : u[2] = OWL_inverseOf}}),
     class_mappings |-> Cardinality(DOMAIN cm),
     property_mappings |-> Cardinality(DOMAIN pm),
     total_triples |-> Cardinality(merged \ {StrategicDeclaration})]

\* statistics that count every typed node as a class
get_statistics_of_typed_nodes(merged, cm, pm) ==
    [classes |-> Cardinality({t[1] : t \in {u \in merged : u[2] = RDF_type}}),
     object_properties |-> Cardinality(SubjectsOf(merged, RDF_type, OWL_ObjectProperty)),
     datatype_properties |-> Cardinality(SubjectsOf(merged, RDF_type, OWL_DatatypeProperty)),
     inverse_properties |-> Cardinality({t[1] : t \in {u \in merged : u[2] = OWL_inverseOf}}),
     class_mappings |-> Cardinality(DOMAIN cm),
     property_mappings |-> Cardinality(DOMAIN pm),
     total_triples |-> Cardinality(merged)]

get_statistics(merged, cm, pm) ==
    [classes |-> Cardinality(SubjectsOf(merged, RDF_type, OWL_Class)),
     object_properties |-> Cardinality(SubjectsOf(merged, RDF_type, OWL_ObjectProperty)),
     datatype_properties |-> Cardinality(SubjectsOf(merged, RDF_type, OWL_DatatypeProperty)),
     inverse_properties |-> Cardinality({t[1] : t \in {u \in merged : u[2] = OWL_inverseOf}}),
     class_mappings |-> Cardinality(DOMAIN cm),
     property_mappings |-> Cardinality(DOMAIN pm),
     total_triples |-> Cardinality(merged)]

NoStats == [classes |-> -1, object_properties |-> -1, datatype_properties |-> -1,
            inverse_properties |-> -1, class_mappings |-> -1, property_mappings |-> -1,
            total_triples |-> -1]

(* ====================== ImprovedOntologyMerger ========================== *)
\* folds, for the loops of the merger
ConcatMap(seq, F(_)) ==
    LET Acc[i \in 0..Len(seq)] == IF i = 0 THEN <<>> ELSE Acc[i - 1] \o F(seq[i])
    IN  Acc[Len(seq)]
Fold(Op(_, _), init, seq) ==
    LET Acc[i \in 0..Len(seq)] == IF i = 0 THEN init ELSE Op(Acc[i - 1], seq[i])
    IN  Acc[Len(seq)]

\* the distinct elements of a list, in the order of their first occurrence
DistinctInOrder(seq) ==
    Fold(LAMBDA acc, x : IF \E i \in 1..Len(acc) : acc[i] = x THEN acc ELSE Append(acc, x),
         <<>>, seq)

\* a dict, in insertion order
DictHas(d, key) == \E i \in 1..Len(d) : d[i].key = key
DictGet(d, key) == d[CHOOSE i \in 1..Len(d) : d[i].key = key].val
DictPut(d, key, val) ==
    IF DictHas(d, key)
    THEN [i \in 1..Len(d) |-> IF d[i].key = key THEN [key |-> key, val |-> val] ELSE d[i]]
    ELSE Append(d, [key |-> key, val |-> val])
DictKeys(d) == {d[i].key : i \in 1..Len(d)}
DictVals(d) == {d[i].val : i \in 1..Len(d)}

\* `for s, p, o in g`: subject by subject, predicate by predicate, each in the
\* order of first insertion
IterAll(g) ==
    LET subjects == DistinctInOrder([n \in 1..Len(g) |-> g[n][1]])
        Of(s) == SelectSeq(g, LAMBDA t : t[1] = s)
        ByPredicate(ts) ==
            ConcatMap(DistinctInOrder([n \in 1..Len(ts) |-> ts[n][2]]),
                      LAMBDA p : SelectSeq(ts, LAMBDA t : t[2] = p))
    IN  ConcatMap(subjects, LAMBDA s : ByPredicate(Of(s)))

\* g.triples((None, p, None)): object by object, then subject by subject
IterPredicate(g, p) ==
    LET ts == SelectSeq(g, LAMBDA t : t[2] = p)
    IN  ConcatMap(DistinctInOrder([n \in 1..Len(ts) |-> ts[n][3]]),
                  LAMBDA o : SelectSeq(ts, LAMBDA t : t[3] = o))

\* Graph.add on a graph kept in insertion order
AddStatement(graph, t) == IF t \in Range(graph) THEN graph ELSE Append(graph, t)
RemoveStatement(graph, t) == SelectSeq(graph, LAMBDA u : u # t)

ImprovedBaseUri == <<"a","#">>
ImprovedOntologyUri == URIRef(RStripHash(ImprovedBaseUri))
ImprovedDeclaration ==
    << <<ImprovedOntologyUri, RDF_type, OWL_Ontology>>,
       <<ImprovedOntologyUri, RDFS_label,
         LiteralEn(<<"A","d","a","p","t","i","v","e"," ","H","M","I">>)>>,
       <<ImprovedOntologyUri, RDFS_comment,
         LiteralEn(<<"A","n"," ","o","n","t","o","l","o","g","y">>)>> >>
OWL_NamedIndividual ==
    URIRef(<<"o","w","l","#","N","a","m","e","d","I","n","d","i","v","i","d","u","a","l">>)

NoTerm == [k |-> "none", v |-> <<>>]

IsWordChar(c) ==
    \/ \E i \in 1..Len(LowerChars) : LowerChars[i] = c \/ UpperChars[i] = c
    \/ c \in {"0","1","2","3","4","5","6","7","8","9","_"}

\* re.sub(r'\s+', ' ', text)
CollapseSpaces(text) ==
    Fold(LAMBDA acc, c :
            IF IsSpace(c)
            THEN IF acc # <<>> /\ acc[Len(acc)] = " " THEN acc ELSE Append(acc, " ")
            ELSE Append(acc, c),
         <<>>, text)

normalize_text(text) ==
    IF text = NoText \/ text = <<>> THEN <<>>
    ELSE Strip(CollapseSpaces(
            SelectSeq(ToLower(text), LAMBDA c : IsWordChar(c) \/ IsSpace(c))))

\* __init__
FreshImproved ==
    [merged_graph |-> ImprovedDeclaration,
     entity_mappings |-> <<>>,
     label_to_entity |-> <<>>,
     similar_entities |-> <<>>,
     temp_graphs |-> <<>>]

FirstObject(graph, s, p) ==
    LET objs == ObjectsSeq(graph, s, p) IN IF objs = <<>> THEN NoTerm ELSE objs[1]

\* the type find_similar_entity reads for the entity: from the first of
\* temp_graphs that types it
TypeInTempGraphs(self, entity) ==
    LET typed == SelectSeq(self.temp_graphs,
                           LAMBDA g : FirstObject(g, entity, RDF_type) # NoTerm)
    IN  IF typed = <<>> THEN NoTerm ELSE FirstObject(typed[1], entity, RDF_type)

\* a search that never finds a registered entity
find_no_similar_entity(self, entity, label, comment) == NoTerm

find_similar_entity(self, entity, label, comment) ==
    IF label = NoText \/ label = <<>> THEN NoTerm
    ELSE LET normalized_label == normalize_text(label)
             normalized_comment == normalize_text(comment)
             entity_type == TypeInTempGraphs(self, entity)
             Similar(item) ==
                LET existing_type == FirstObject(self.merged_graph, item.val, RDF_type)
                    existing_comment ==
                        normalize_text(get_comment(self.merged_graph, item.val))
                IN  /\ ~(entity_type # NoTerm /\ existing_type # NoTerm
                         /\ entity_type # existing_type)
                    /\ \/ /\ \/ Contains(item.key, normalized_label)
                             \/ Contains(normalized_label, item.key)
                          /\ Len(normalized_label) > 5
                       \/ /\ normalized_comment # <<>>
                          /\ Len(normalized_comment) > 10
                          /\ existing_comment # <<>>
                          /\ \/ Contains(existing_comment, normalized_comment)
                             \/ Contains(normalized_comment, existing_comment)
             found == SelectSeq(self.label_to_entity, Similar)
         IN  IF DictHas(self.label_to_entity, normalized_label)
             THEN DictGet(self.label_to_entity, normalized_label)
             ELSE IF found = <<>> THEN NoTerm ELSE found[1].val

\* add_ontology, first pass, for one type statement (s, rdf:type, o)
RegisterEntity(self, g, t) ==
    LET s == t[1]
        label == get_label(g, s)
        comment == get_comment(g, s)
        normalized_label == normalize_text(label)
        similar_entity == find_similar_entity(self, s, label, comment)
    IN  IF ~(IsURIRef(s) /\ t[3] \in {OWL_Class, OWL_ObjectProperty, OWL_DatatypeProperty})
        THEN self
        ELSE IF label = NoText \/ label = <<>> THEN self
        ELSE IF DictHas(self.entity_mappings, s) THEN self
        ELSE IF similar_entity # NoTerm
        THEN [self EXCEPT !.entity_mappings = DictPut(@, s, similar_entity)]
        ELSE IF DictHas(self.label_to_entity, normalized_label)
        THEN [self EXCEPT !.similar_entities =
                DictPut(@, normalized_label,
                        Append(IF DictHas(@, normalized_label)
                               THEN DictGet(@, normalized_label)
                               ELSE <<DictGet(self.label_to_entity, normalized_label)>>,
                               s))]
        ELSE [self EXCEPT !.label_to_entity = DictPut(@, normalized_label, s)]

\* add_ontology, second pass, for one statement: subject and URI object are
\* mapped, the predicate is kept
AddMapped(self, t) ==
    LET subject == IF DictHas(self.entity_mappings, t[1])
                   THEN DictGet(self.entity_mappings, t[1]) ELSE t[1]
        obj == IF IsURIRef(t[3]) /\ DictHas(self.entity_mappings, t[3])
               THEN DictGet(self.entity_mappings, t[3]) ELSE t[3]
    IN  [self EXCEPT !.merged_graph = AddStatement(@, <<subject, t[2], obj>>)]

\* add_ontology: the instance afterwards; a document that does not parse
\* leaves it as it was (the call returns False)
add_ontology(self, doc) ==
    IF ~doc.ok THEN self
    ELSE LET g == Parse(doc, Len(self.temp_graphs) + 1)
             listed == [self EXCEPT !.temp_graphs = Append(@, g)]
             registered == Fold(LAMBDA acc, t : RegisterEntity(acc, g, t),
                                listed, IterPredicate(g, RDF_type))
         IN  Fold(AddMapped, registered, IterAll(g))

\* consolidate_entity_descriptions
consolidate_entity_descriptions(self) ==
    Fold(LAMBDA acc, item :
            LET Comments(g) ==
                    LET lits == SelectSeq(ObjectsSeq(g, item.key, RDFS_comment), IsLiteral)
                    IN  [n \in 1..Len(lits) |-> lits[n].v]
                source_comments == DistinctInOrder(ConcatMap(acc.temp_graphs, Comments))
                target_comments ==
                    {o.v : o \in {x \in Range(ObjectsSeq(acc.merged_graph, item.val,
                                                        RDFS_comment)) : IsLiteral(x)}}
            IN  Fold(LAMBDA a, c :
                        IF c \in target_comments THEN a
                        ELSE [a EXCEPT !.merged_graph =
                                 AddStatement(@, <<item.val, RDFS_comment, LiteralEn(c)>>)],
                     acc, source_comments),
         self, self.entity_mappings)

\* sorted(entities, key=count, reverse=True)[0]: the first entity of greatest
\* count (the sort is stable)
MostConnected(self, entities) ==
    LET graphs == <<self.merged_graph>> \o self.temp_graphs
        Count(e) ==
            Fold(LAMBDA n, g : n + Len(SelectSeq(g, LAMBDA t : t[1] = e))
                                 + Len(SelectSeq(g, LAMBDA t : t[3] = e)),
                 0, graphs)
        best == CHOOSE i \in 1..Len(entities) :
                    /\ \A j \in 1..Len(entities) : Count(entities[j]) <= Count(entities[i])
                    /\ \A j \in 1..(i - 1) : Count(entities[j]) < Count(entities[i])
    IN  entities[best]

\* merge_similar_entities
merge_similar_entities(self) ==
    Fold(LAMBDA acc, item :
            IF Len(item.val) <= 1 THEN acc
            ELSE LET keep_entity == MostConnected(acc, item.val)
                     Move(a, entity) ==
                        IF entity = keep_entity THEN a
                        ELSE LET asSubject == SelectSeq(a.merged_graph,
                                                        LAMBDA t : t[1] = entity)
                                 moved == Fold(LAMBDA gr, t :
                                                  AddStatement(RemoveStatement(gr, t),
                                                               <<keep_entity, t[2], t[3]>>),
                                               a.merged_graph, asSubject)
                                 asObject == SelectSeq(moved, LAMBDA t : t[3] = entity)
                                 redirected ==
                                     Fold(LAMBDA gr, t :
                                             AddStatement(RemoveStatement(gr, t),
                                                          <<t[1], t[2], keep_entity>>),
                                          moved, asObject)
                             IN  [a EXCEPT !.entity_mappings = DictPut(@, entity, keep_entity),
                                           !.merged_graph = redirected]
                 IN  Fold(Move, acc, Tail(item.val)),
         self, self.similar_entities)

\* a reset that keeps the label table of the calls before
ResetKeepingLabels(self) ==
    [FreshImproved EXCEPT !.label_to_entity = self.label_to_entity]

\* merge_ontologies, lines 210-230: reset the graph and the tracking tables
ResetImproved(self) == FreshImproved

\* merge_ontologies as a whole
merge_ontologies(self, docs) ==
    merge_similar_entities(
        consolidate_entity_descriptions(
            Fold(add_ontology, ResetImproved(self), docs)))

ImprovedSubjects(graph, p, o) ==
    {t[1] : t \in {u \in Range(graph) : u[2] = p /\ u[3] = o}}

improved_get_statistics(self) ==
    [classes |-> Cardinality(ImprovedSubjects(self.merged_graph, RDF_type, OWL_Class)),
     object_properties |->
        Cardinality(ImprovedSubjects(self.merged_graph, RDF_type, OWL_ObjectProperty)),
     datatype_properties |->
        Cardinality(ImprovedSubjects(self.merged_graph, RDF_type, OWL_DatatypeProperty)),
     individuals |->
        Cardinality(ImprovedSubjects(self.merged_graph, RDF_type, OWL_NamedIndividual)),
     situation_classes |->
        Cardinality(ImprovedSubjects(self.merged_graph, RDFS_subClassOf,
                    URIRef(ImprovedBaseUri \o <<"S","i","t","u","a","t","i","o","n">>))),
     event_classes |->
        Cardinality(ImprovedSubjects(self.merged_graph, RDFS_subClassOf,
                    URIRef(ImprovedBaseUri \o <<"E","v","e","n","t">>))),
     duplicates_detected |-> Len(self.entity_mappings),
     total_triples |-> Len(self.merged_graph)]

\* source documents for the improved merger
A(local) == URIRef(ImprovedBaseUri \o local)
cDrowsy == A(<<"D","r","o","w","s","y">>)
cDrowsyEvent == A(<<"D","r","o","w","s","y","E","v","e","n","t">>)
cAlert == A(<<"A","l","e","r","t">>)
pDrowsyProp == A(<<"d","r","o","w","s","y","P","r","o","p">>)
pRelatesTo == A(<<"r","e","l","a","t","e","s","T","o">>)

\* a labelled, commented class
DocDrowsy ==
    Doc(<< <<cDrowsy, RDF_type, OWL_Class>>,
           <<cDrowsy, RDFS_label, Literal(<<"D","r","o","w","s","y">>)>>,
           <<cDrowsy, RDFS_comment,
             Literal(<<"D","r","i","v","e","r"," ","i","s"," ","s","l","e","e","p","y",
                       " ","n","o","w">>)>> >>)
\* a class whose label contains the label of Drowsy
DocEvent ==
    Doc(<< <<cDrowsyEvent, RDF_type, OWL_Class>>,
           <<cDrowsyEvent, RDFS_label,
             Literal(<<"D","r","o","w","s","y"," ","E","v","e","n","t">>)>>,
           <<cDrowsyEvent, pRelatesTo, cAlert>> >>)
\* a class with a short label whose comment is contained in that of Drowsy
DocAlert ==
    Doc(<< <<cAlert, RDF_type, OWL_Class>>,
           <<cAlert, RDFS_label, Literal(<<"A","l","e","r","t">>)>>,
           <<cAlert, RDFS_comment,
             Literal(<<"d","r","i","v","e","r"," ","i","s"," ","s","l","e","e","p","y">>)>> >>)
\* a property whose label normalizes to the label of the class Drowsy
DocProperty ==
    Doc(<< <<pDrowsyProp, RDF_type, OWL_ObjectProperty>>,
           <<pDrowsyProp, RDFS_label, Literal(<<"D","r","o","w","s","y","!">>)>>,
           <<cAlert, pDrowsyProp, cDrowsyEvent>> >>)

\* the node Alert declared under the label of DrowsyEvent
DocAlias ==
    Doc(<< <<cAlert, RDF_type, OWL_Class>>,
           <<cAlert, RDFS_label,
             Literal(<<"D","r","o","w","s","y"," ","E","v","e","n","t">>)>> >>)

ImprovedDocs == {DocDrowsy, DocEvent, DocAlert, DocProperty, DocAlias, BadDoc}

(* ------------------- DuplicateMerger: pure operations ------------------- *)
\* A graph of the duplicate merger is the set of its statements; the store
\* fixes no order for g.triples(...), so an iteration takes any order.

\* duplicate_utils.find_duplicates, for the label statements in the order
\* `labels` in which g.triples((None, RDFS.label, None)) yields them
find_duplicates(labels) ==
    LET Step(acc, t) ==
            IF ~IsLiteral(t[3]) THEN acc
            ELSE IF DictHas(acc.label_dict, t[3].v)
                 THEN [acc EXCEPT !.duplicates =
                          IF DictHas(@, t[3].v)
                          THEN DictPut(@, t[3].v, Append(DictGet(@, t[3].v), t[1]))
                          ELSE DictPut(@, t[3].v,
                                       <<DictGet(acc.label_dict, t[3].v), t[1]>>)]
                 ELSE [acc EXCEPT !.label_dict = DictPut(@, t[3].v, t[1])]
    IN  Fold(Step, [label_dict |-> <<>>, duplicates |-> <<>>], labels).duplicates

\* duplicate_utils.transfer_relationships
transfer_relationships(g, source_uri, target_uri) ==
    LET incoming == g \cup {<<t[1], t[2], target_uri>> : t \in {u \in g : u[3] = source_uri}}
    IN  incoming \cup
        {<<target_uri, t[2], t[3]>> :
            t \in {u \in incoming : u[1] = source_uri /\ u[2] \notin {RDF_type, RDFS_label}}}

\* DuplicateMerger._merge_entities
merge_entities(g, primary_uri, duplicate_uri) ==
    {t \in transfer_relationships(g, duplicate_uri, primary_uri) :
        t[1] # duplicate_uri /\ t[3] # duplicate_uri}

\* `for uri in uris: if uri != primary_uri: self._merge_entities(primary_uri, uri)`
MergeInto(g, primary_uri, uris) ==
    Fold(LAMBDA acc, uri : IF uri # primary_uri THEN merge_entities(acc, primary_uri, uri)
                           ELSE acc,
         g, uris)

\* Python's None for the preferences argument
NoPreferences == <<>>

\* a selection that ignores the preferences
select_first_uri(label, uris, preferences) == uris[1]

\* a selection that takes the preferred node without looking for it in the group
select_preferred_uri(label, uris, preferences) ==
    IF DictHas(preferences, label) THEN URIRef(DictGet(preferences, label)) ELSE uris[1]

\* DuplicateMerger._select_primary_uri; preferences is a dict label -> URI text
select_primary_uri(label, uris, preferences) ==
    IF DictHas(preferences, label)
       /\ \E i \in 1..Len(uris) : uris[i] = URIRef(DictGet(preferences, label))
    THEN URIRef(DictGet(preferences, label))
    ELSE uris[1]

\* max(counts.items(), key=...)[0] over a dict filled in the order of uris:
\* the first of the members with the greatest count
FirstWithMost(uris, counts) ==
    uris[CHOOSE i \in 1..Len(uris) :
            /\ \A j \in 1..Len(uris) : counts[uris[j]] <= counts[uris[i]]
            /\ \A j \in 1..(i - 1) : counts[uris[j]] < counts[uris[i]]]

Incoming(g, uri) == Cardinality({t \in g : t[3] = uri})
Outgoing(g, uri) == Cardinality({t \in g : t[1] = uri})

\* DuplicateMerger._get_most_connected_uri
get_most_connected_uri(g, uris) ==
    FirstWithMost(uris, [uri \in Range(uris) |-> Incoming(g, uri) + Outgoing(g, uri)])

\* DuplicateMerger._get_uri_with_most_properties
get_uri_with_most_properties(g, uris) ==
    FirstWithMost(uris, [uri \in Range(uris) |-> Outgoing(g, uri)])

Strategies == {"first", "most_connected", "most_properties"}

\* the primary merge_with_strategy picks for one group
StrategyPrimary(g, uris, strategy) ==
    IF strategy = "most_connected" THEN get_most_connected_uri(g, uris)
    ELSE IF strategy = "most_properties" THEN get_uri_with_most_properties(g, uris)
    ELSE uris[1]

\* the loops of merge_all_duplicates and of merge_with_strategy over
\* self.duplicates, from the graph g
merge_all_duplicates(g, dups, preferences) ==
    Fold(LAMBDA acc, grp :
            IF Len(grp.val) > 1
            THEN MergeInto(acc, select_primary_uri(grp.key, grp.val, preferences), grp.val)
            ELSE acc,
         g, dups)

(* --------------------- DuplicateMerger: input files --------------------- *)
D(local) == URIRef(<<"d","#">> \o local)
dA == D(<<"A">>)
dB == D(<<"B">>)
dC == D(<<"C">>)
dD == D(<<"D">>)
dP == D(<<"P">>)
dQ == D(<<"Q">>)
dZ == D(<<"Z">>)
dRel == D(<<"r","e","l">>)
lX == Literal(<<"x">>)
lY == Literal(<<"y">>)
lP == Literal(<<"p">>)
lC == Literal(<<"c">>)

\* two classes of one label, the second the better connected
DupPair ==
    Doc(<< <<dA, RDF_type, OWL_Class>>, <<dA, RDFS_label, lX>>,
           <<dB, RDF_type, OWL_Class>>, <<dB, RDFS_label, lX>>,
           <<dB, dRel, dC>>, <<dC, dRel, dB>> >>)
\* a node of two labels, in a group with B and in a group with C
DupTwoLabels ==
    Doc(<< <<dA, RDFS_label, lX>>, <<dA, RDFS_label, lY>>,
           <<dB, RDFS_label, lX>>, <<dC, RDFS_label, lY>>,
           <<dB, dRel, dC>> >>)
\* two groups, the members of the first both related to a member of the second
DupCounts ==
    Doc(<< <<dP, RDFS_label, lP>>, <<dQ, RDFS_label, lP>>,
           <<dP, dRel, dC>>, <<dQ, dRel, dC>>,
           <<dC, RDFS_label, lC>>, <<dD, RDFS_label, lC>>,
           <<dD, dRel, dP>> >>)
\* an untyped node and a class of one label
DupTyped ==
    Doc(<< <<dA, RDFS_label, lX>>,
           <<dB, RDF_type, OWL_Class>>, <<dB, RDFS_label, lX>>,
           <<dC, dRel, dB>> >>)
\* two properties of one label, each used as a predicate
DupPredicates ==
    Doc(<< <<dP, RDFS_label, lP>>, <<dQ, RDFS_label, lP>>,
           <<dA, dP, dB>>, <<dC, dQ, dD>> >>)
\* no label is shared
DupNone == Doc(<< <<dA, RDFS_label, lX>>, <<dB, RDFS_label, lY>>, <<dA, dRel, dB>> >>)

\* A, of two labels and four statements, in a group with B, of five, and in
\* a group with C, of three
DupRivals ==
    Doc(<< <<dA, RDFS_label, lX>>, <<dA, RDFS_label, lY>>,
           <<dA, dRel, dP>>, <<dA, dRel, dQ>>,
           <<dB, RDFS_label, lX>>,
           <<dB, dRel, dP>>, <<dB, dRel, dQ>>, <<dB, dRel, dD>>, <<dB, dRel, dZ>>,
           <<dC, RDFS_label, lY>>, <<dC, dRel, dD>>, <<dC, dRel, dZ>> >>)

DuplicateDocs ==
    {DupPair, DupTwoLabels, DupCounts, DupRivals, DupTyped, DupPredicates, DupNone, BadDoc}

Pref(label, uri) == [key |-> label.v, val |-> uri.v]
PreferenceSets ==
    {NoPreferences,
     <<Pref(lX, dA)>>, <<Pref(lX, dB)>>, <<Pref(lX, dZ)>>,
     <<Pref(lX, dB), Pref(lY, dC)>>, <<Pref(lX, dZ), Pref(lY, dC)>>,
     <<Pref(lY, dC)>>, <<Pref(lC, dC)>>}

(* ------------------------------- state ---------------------------------- *)
VARIABLES
    \* which merger the run drives
    engine,
    \* StrategicOntologyMerger instance
    merged_graph, class_mappings, property_mappings, inverse_properties,
    \* one merge_ontologies call: its argument, locals, position and result
    pc, ontology_contents, ontologies, similar_classes, similar_properties,
    idx, chosen, result,
    \* the caller: calls made so far, calls allowed, last statistics read
    calls, limit, stats,
    \* ImprovedOntologyMerger instance
    im_merged_graph, entity_mappings, label_to_entity, similar_entities, temp_graphs,
    \* its caller: position in merge_ontologies, sources still to add, the
    \* argument and the result of the last call, calls made so far, and
    \* whether the last merge_ontologies call found the instance already used
    im_pc, im_pending, im_contents, im_result, im_ops, im_used,
    \* DuplicateMerger instance: self.graph and self.duplicates, and the graph
    \* as it was loaded
    dm_graph, duplicates, dm_input,
    \* its caller: position, the call being made, the group the loop has
    \* reached, the primary chosen for each group so far, and the outcome
    dm_pc, dm_call, dm_idx, dm_log, dm_result,
    \* a call of normalize_name: its argument and what it returned
    nn_name, nn_normalized

strategicVars == <<merged_graph, class_mappings, property_mappings, inverse_properties,
                   pc, ontology_contents, ontologies, similar_classes, similar_properties,
                   idx, chosen, result, calls, limit, stats>>

improvedVars == <<im_merged_graph, entity_mappings, label_to_entity, similar_entities,
                  temp_graphs, im_pc, im_pending, im_contents, im_result, im_ops, im_used>>

duplicateVars == <<dm_graph, duplicates, dm_input, dm_pc, dm_call, dm_idx, dm_log, dm_result>>

nameVars == <<nn_name, nn_normalized>>

vars == <<engine, strategicVars, improvedVars, duplicateVars, nameVars>>

\* no call of normalize_name on its own
NameInit == nn_name = <<>> /\ nn_normalized = NoText

\* __init__
StrategicInit ==
    /\ merged_graph = {StrategicDeclaration}
    /\ class_mappings = EmptyMap
    /\ property_mappings = EmptyMap
    /\ inverse_properties = EmptyMap
    /\ pc = "idle"
    /\ ontology_contents = <<>>
    /\ ontologies = <<>>
    /\ similar_classes = <<>>
    /\ similar_properties = <<>>
    /\ idx = 0
    /\ chosen = <<>>
    /\ result = "unset"
    /\ calls = 0
    /\ stats = NoStats

AllGroups == TaggedGroups(similar_classes, similar_properties)

\* merge_ontologies, lines 168-177: parse every source; a parse error leaves
\* the try block and the call returns None
ParseSources(contents) ==
    /\ engine = "strategic"
    /\ pc = "idle"
    /\ calls < limit
    /\ calls' = calls + 1
    /\ ontology_contents' = contents
    /\ similar_classes' = <<>>
    /\ similar_properties' = <<>>
    /\ chosen' = <<>>
    /\ idx' = 0
    /\ stats' = NoStats
    /\ IF \E i \in 1..Len(contents) : ~contents[i].ok
       THEN /\ result' = "None"
            /\ pc' = "idle"
            /\ ontologies' = <<>>
       ELSE /\ result' = "unset"
            /\ pc' = "find"
            /\ ontologies' = [i \in 1..Len(contents) |-> Parse(contents[i], i)]
    /\ UNCHANGED <<merged_graph, class_mappings, property_mappings, inverse_properties,
                   limit>>
    /\ UNCHANGED <<engine, improvedVars, duplicateVars, nameVars>>

\* lines 185-186: find_similar_classes, find_similar_properties
FindSimilar ==
    /\ engine = "strategic"
    /\ pc = "find"
    /\ \E entries \in PropertyEntryLists(ontologies) :
          LET byKey == EntriesByKey(entries, KeysInOrder(entries))
              sc == find_similar_classes(ontologies)
              sp == Groups(entries)
          IN  /\ similar_classes' = sc
              /\ similar_properties' = sp
              /\ inverse_properties' = RecordInverses(inverse_properties, byKey, byKey, 1)
              /\ pc' = IF Len(sc) + Len(sp) > 0 THEN "map"
                       ELSE IF Len(ontologies) > 0 THEN "rewrite" ELSE "inverse"
    /\ idx' = 1
    /\ UNCHANGED <<merged_graph, class_mappings, property_mappings, ontology_contents,
                   ontologies, chosen, result, calls, limit, stats>>
    /\ UNCHANGED <<engine, improvedVars, duplicateVars, nameVars>>

\* line 189: create_entity_mappings, one group per step
CreateEntityMapping ==
    /\ engine = "strategic"
    /\ pc = "map"
    /\ LET grp == AllGroups[idx]
       IN  \E order \in Perms(grp.members) :
              LET maps == MapGroup([cm |-> class_mappings, pm |-> property_mappings],
                                   grp, order, ontologies)
              IN  /\ class_mappings' = maps.cm
                  /\ property_mappings' = maps.pm
                  /\ chosen' = IF Len(order) > 1
                               THEN Append(chosen,
                                      [kind |-> grp.kind, members |-> grp.members,
                                       order |-> order,
                                       canonical |-> choose_canonical_entity(order, ontologies)])
                               ELSE chosen
    /\ IF idx < Len(AllGroups)
       THEN idx' = idx + 1 /\ pc' = "map"
       ELSE idx' = 1 /\ pc' = IF Len(ontologies) > 0 THEN "rewrite" ELSE "inverse"
    /\ UNCHANGED <<merged_graph, inverse_properties, ontology_contents, ontologies,
                   similar_classes, similar_properties, result, calls, limit, stats>>
    /\ UNCHANGED <<engine, improvedVars, duplicateVars, nameVars>>

\* a rewriter that leaves its loop after the first graph
AddFirstGraphOnly ==
    /\ engine = "strategic"
    /\ pc = "rewrite"
    /\ merged_graph' = add_graph_with_mappings(merged_graph, ontologies[idx],
                                               class_mappings, property_mappings)
    /\ idx' = 0
    /\ pc' = "inverse"
    /\ UNCHANGED <<class_mappings, property_mappings, inverse_properties, ontology_contents,
                   ontologies, similar_classes, similar_properties, chosen, result, calls,
                   limit, stats>>
    /\ UNCHANGED <<engine, improvedVars, duplicateVars, nameVars>>

\* lines 198-199: add_graph_with_mappings, one graph per step
AddGraphWithMappings ==
    /\ engine = "strategic"
    /\ pc = "rewrite"
    /\ merged_graph' = add_graph_with_mappings(merged_graph, ontologies[idx],
                                               class_mappings, property_mappings)
    /\ IF idx < Len(ontologies)
       THEN idx' = idx + 1 /\ pc' = "rewrite"
       ELSE idx' = 0 /\ pc' = "inverse"
    /\ UNCHANGED <<class_mappings, property_mappings, inverse_properties, ontology_contents,
                   ontologies, similar_classes, similar_properties, chosen, result, calls,
                   limit, stats>>
    /\ UNCHANGED <<engine, improvedVars, duplicateVars, nameVars>>

\* line 202
AddInversePropertyDeclarations ==
    /\ engine = "strategic"
    /\ pc = "inverse"
    /\ merged_graph' = add_inverse_property_declarations(merged_graph, inverse_properties,
                                                         class_mappings, property_mappings)
    /\ pc' = "clean"
    /\ idx' = 0
    /\ UNCHANGED <<class_mappings, property_mappings, inverse_properties, ontology_contents,
                   ontologies, similar_classes, similar_properties, chosen, result, calls,
                   limit, stats>>
    /\ UNCHANGED <<engine, improvedVars, duplicateVars, nameVars>>

\* lines 205-211: clean_redundant_restrictions, serialize, return
CleanAndReturn ==
    /\ engine = "strategic"
    /\ pc = "clean"
    /\ merged_graph' = clean_redundant_restrictions(merged_graph)
    /\ result' = "turtle"
    /\ pc' = "idle"
    /\ UNCHANGED <<class_mappings, property_mappings, inverse_properties, ontology_contents,
                   ontologies, similar_classes, similar_properties, idx, chosen, calls,
                   limit, stats>>
    /\ UNCHANGED <<engine, improvedVars, duplicateVars, nameVars>>

\* the caller reads the statistics after a merge (ontology-pipeline.py:630)
GetStatistics ==
    /\ engine = "strategic"
    /\ pc = "idle"
    /\ result # "unset"
    /\ stats = NoStats
    /\ stats' = get_statistics(merged_graph, class_mappings, property_mappings)
    /\ UNCHANGED <<merged_graph, class_mappings, property_mappings, inverse_properties,
                   pc, ontology_contents, ontologies, similar_classes, similar_properties,
                   idx, chosen, result, calls, limit>>
    /\ UNCHANGED <<engine, improvedVars, duplicateVars, nameVars>>

StrategicNext ==
    \/ \E contents \in SeqsUpTo(StrategicDocs, MaxSources) : ParseSources(contents)
    \/ FindSimilar
    \/ CreateEntityMapping
    \/ AddGraphWithMappings
    \/ AddInversePropertyDeclarations
    \/ CleanAndReturn
    \/ GetStatistics

(* ------------------- ImprovedOntologyMerger: state --------------------- *)
ImprovedSelf ==
    [merged_graph |-> im_merged_graph,
     entity_mappings |-> entity_mappings,
     label_to_entity |-> label_to_entity,
     similar_entities |-> similar_entities,
     temp_graphs |-> temp_graphs]

BecomeImproved(self) ==
    /\ im_merged_graph' = self.merged_graph
    /\ entity_mappings' = self.entity_mappings
    /\ label_to_entity' = self.label_to_entity
    /\ similar_entities' = self.similar_entities
    /\ temp_graphs' = self.temp_graphs

ImprovedInit ==
    /\ im_merged_graph = FreshImproved.merged_graph
    /\ entity_mappings = FreshImproved.entity_mappings
    /\ label_to_entity = FreshImproved.label_to_entity
    /\ similar_entities = FreshImproved.similar_entities
    /\ temp_graphs = FreshImproved.temp_graphs
    /\ im_pc = "idle"
    /\ im_pending = <<>>
    /\ im_contents = <<>>
    /\ im_result = "unset"
    /\ im_ops = 0
    /\ im_used = FALSE

\* add_ontology called by a user of the class
AddOntology(doc) ==
    /\ engine = "improved"
    /\ im_pc = "idle"
    /\ im_ops < MaxOps
    /\ im_ops' = im_ops + 1
    /\ BecomeImproved(add_ontology(ImprovedSelf, doc))
    /\ im_result' = IF doc.ok THEN "True" ELSE "False"
    /\ UNCHANGED <<im_pc, im_pending, im_contents, im_used>>
    /\ UNCHANGED <<engine, strategicVars, duplicateVars, nameVars>>

\* merge_ontologies, lines 210-230: the resets and the declaration
MergeReset(docs) ==
    /\ engine = "improved"
    /\ im_pc = "idle"
    /\ im_ops < MaxOps
    /\ im_ops' = im_ops + 1
    /\ BecomeImproved(ResetImproved(ImprovedSelf))
    /\ im_contents' = docs
    /\ im_pending' = docs
    /\ im_result' = "unset"
    /\ im_pc' = "adding"
    /\ im_used' = (ImprovedSelf # FreshImproved)
    /\ UNCHANGED <<engine, strategicVars, duplicateVars, nameVars>>

\* merge_ontologies, lines 233-237: add_ontology on the next source; a source
\* that fails is logged and skipped
MergeAddOntology ==
    /\ engine = "improved"
    /\ im_pc = "adding"
    /\ im_pending # <<>>
    /\ BecomeImproved(add_ontology(ImprovedSelf, Head(im_pending)))
    /\ im_pending' = Tail(im_pending)
    /\ UNCHANGED <<im_pc, im_contents, im_result, im_ops, im_used>>
    /\ UNCHANGED <<engine, strategicVars, duplicateVars, nameVars>>

\* merge_ontologies, lines 240-246: consolidate, merge similar, serialize
MergeFinish ==
    /\ engine = "improved"
    /\ im_pc = "adding"
    /\ im_pending = <<>>
    /\ BecomeImproved(merge_similar_entities(consolidate_entity_descriptions(ImprovedSelf)))
    /\ im_result' = "turtle"
    /\ im_pc' = "idle"
    /\ UNCHANGED <<im_pending, im_contents, im_ops, im_used>>
    /\ UNCHANGED <<engine, strategicVars, duplicateVars, nameVars>>

ImprovedNext ==
    \/ \E doc \in ImprovedDocs : AddOntology(doc)
    \/ \E docs \in SeqsUpTo(ImprovedDocs, MaxSources) : MergeReset(docs)
    \/ MergeAddOntology
    \/ MergeFinish


(* ------------------------ DuplicateMerger: steps ------------------------ *)
NoCall == [op |-> "none", preferences |-> NoPreferences, strategy |-> "none"]

\* before DuplicateMerger(input_file) is constructed
DuplicateInit ==
    /\ dm_graph = {}
    /\ duplicates = <<>>
    /\ dm_input = {}
    /\ dm_pc = "new"
    /\ dm_call = NoCall
    /\ dm_idx = 0
    /\ dm_log = <<>>
    /\ dm_result = "unset"

\* __init__: load the file, which raises on a parse error, and find the
\* duplicates
Construct(doc) ==
    /\ engine = "duplicate"
    /\ dm_pc = "new"
    /\ IF doc.ok
       THEN \E labels \in Perms({t \in Range(doc.g) : t[2] = RDFS_label}) :
                /\ dm_graph' = Range(doc.g)
                /\ dm_input' = Range(doc.g)
                /\ duplicates' = find_duplicates(labels)
                /\ dm_pc' = "ready"
                /\ dm_result' = "unset"
       ELSE /\ dm_pc' = "failed"
            /\ dm_result' = "load error"
            /\ UNCHANGED <<dm_graph, dm_input, duplicates>>
    /\ UNCHANGED <<dm_call, dm_idx, dm_log>>
    /\ UNCHANGED <<engine, strategicVars, improvedVars, nameVars>>

\* merge_all_duplicates, lines 25-27: nothing to merge, nothing saved
MergeAllDuplicates(preferences) ==
    /\ engine = "duplicate"
    /\ dm_pc = "ready"
    /\ dm_call' = [op |-> "all", preferences |-> preferences, strategy |-> "none"]
    /\ IF duplicates = <<>>
       THEN dm_pc' = "done" /\ dm_result' = "not saved"
       ELSE dm_pc' = "merging" /\ dm_result' = "unset"
    /\ dm_idx' = 0
    /\ UNCHANGED <<dm_graph, duplicates, dm_input, dm_log>>
    /\ UNCHANGED <<engine, strategicVars, improvedVars, nameVars>>

\* merge_all_duplicates, lines 29-32: one group of the loop
MergeDuplicateSet ==
    /\ engine = "duplicate"
    /\ dm_pc = "merging"
    /\ dm_call.op = "all"
    /\ dm_idx < Len(duplicates)
    /\ LET grp == duplicates[dm_idx + 1]
           primary == select_primary_uri(grp.key, grp.val, dm_call.preferences)
       IN  IF Len(grp.val) > 1
           THEN /\ dm_graph' = MergeInto(dm_graph, primary, grp.val)
                /\ dm_log' = Append(dm_log, [label |-> grp.key, uris |-> grp.val,
                                             primary |-> primary])
           ELSE UNCHANGED <<dm_graph, dm_log>>
    /\ dm_idx' = dm_idx + 1
    /\ UNCHANGED <<duplicates, dm_input, dm_pc, dm_call, dm_result>>
    /\ UNCHANGED <<engine, strategicVars, improvedVars, nameVars>>

\* merge_with_strategy, lines 73-74: an unknown strategy raises ValueError
MergeWithStrategy(strategy) ==
    /\ engine = "duplicate"
    /\ dm_pc = "ready"
    /\ dm_call' = [op |-> "strategy", preferences |-> NoPreferences, strategy |-> strategy]
    /\ IF strategy \in Strategies
       THEN dm_pc' = "merging" /\ dm_result' = "unset"
       ELSE dm_pc' = "done" /\ dm_result' = "ValueError"
    /\ dm_idx' = 0
    /\ UNCHANGED <<dm_graph, duplicates, dm_input, dm_log>>
    /\ UNCHANGED <<engine, strategicVars, improvedVars, nameVars>>

\* merge_with_strategy, lines 76-87: one group of the loop
MergeStrategyGroup ==
    /\ engine = "duplicate"
    /\ dm_pc = "merging"
    /\ dm_call.op = "strategy"
    /\ dm_idx < Len(duplicates)
    /\ LET grp == duplicates[dm_idx + 1]
           primary == StrategyPrimary(dm_graph, grp.val, dm_call.strategy)
       IN  IF Len(grp.val) > 1
           THEN /\ dm_graph' = MergeInto(dm_graph, primary, grp.val)
                /\ dm_log' = Append(dm_log, [label |-> grp.key, uris |-> grp.val,
                                             primary |-> primary])
           ELSE UNCHANGED <<dm_graph, dm_log>>
    /\ dm_idx' = dm_idx + 1
    /\ UNCHANGED <<duplicates, dm_input, dm_pc, dm_call, dm_result>>
    /\ UNCHANGED <<engine, strategicVars, improvedVars, nameVars>>

\* save_ontology at the end of either call
SaveOntology ==
    /\ engine = "duplicate"
    /\ dm_pc = "merging"
    /\ dm_idx = Len(duplicates)
    /\ dm_pc' = "done"
    /\ dm_result' = "saved"
    /\ UNCHANGED <<dm_graph, duplicates, dm_input, dm_call, dm_idx, dm_log>>
    /\ UNCHANGED <<engine, strategicVars, improvedVars, nameVars>>

DuplicateNext ==
    \/ \E doc \in DuplicateDocs : Construct(doc)
    \/ \E preferences \in PreferenceSets : MergeAllDuplicates(preferences)
    \/ MergeDuplicateSet
    \/ \E strategy \in Strategies \cup {"other"} : MergeWithStrategy(strategy)
    \/ MergeStrategyGroup
    \/ SaveOntology

(* ---------------------------- specifications ---------------------------- *)
\* one merge on a freshly constructed StrategicOntologyMerger, as
\* ontology-pipeline.py runs it
Init == engine = "strategic" /\ StrategicInit /\ limit = 1 /\ ImprovedInit /\ DuplicateInit /\ NameInit
Next == StrategicNext
Spec == Init /\ [][Next]_vars

\* one StrategicOntologyMerger reused for several merges
InitReuse == engine = "strategic" /\ StrategicInit /\ limit = MaxCalls /\ ImprovedInit /\ DuplicateInit /\ NameInit
SpecReuse == InitReuse /\ [][Next]_vars

\* an ImprovedOntologyMerger under any calls of add_ontology and merge_ontologies
InitImproved == engine = "improved" /\ StrategicInit /\ limit = 1 /\ ImprovedInit /\ DuplicateInit /\ NameInit
SpecImproved == InitImproved /\ [][ImprovedNext]_vars

\* either merger
InitEngines ==
    engine \in {"strategic", "improved"} /\ StrategicInit /\ limit = 1 /\ ImprovedInit /\ DuplicateInit /\ NameInit
SpecEngines == InitEngines /\ [][StrategicNext \/ ImprovedNext]_vars

\* add_inverse_property_declarations on its own: the merger stands before line
\* 202 with a merged graph, a property mapping and a table of recorded inverse
\* pairs drawn from the cases below
PairTable(pairs) == [x \in {pr[1] : pr \in pairs} |-> (CHOOSE pr \in pairs : pr[1] = x)[2]]
InverseTables ==
    {EmptyMap,
     PairTable({<<pDetectsNap, pDetectedByNap>>}),
     PairTable({<<pDetectsNap, pDetectedByNap>>, <<pDetectedByNap, pDetectsNap>>}),
     PairTable({<<pHasNap, pNapProperty>>}),
     PairTable({<<pHasNap, pNapProperty>>, <<pDetectedByNap, pDetectsNap>>}),
     PairTable({<<pNapProperty, pDetectsNap>>, <<pHasNap, pNapProperty>>}),
     PairTable({<<pHasNap, pHasNap>>})}
PropertyTables ==
    {EmptyMap,
     PairTable({<<pNapProperty, pHasNap>>}),
     PairTable({<<pDetectedByNap, pDetectsNap>>}),
     PairTable({<<pNapProperty, pHasNap>>, <<pDetectsNap, pDetectedByNap>>})}
RewrittenGraphs ==
    {{StrategicDeclaration},
     {StrategicDeclaration, <<pHasNap, RDF_type, OWL_ObjectProperty>>,
      <<pDetectsNap, RDF_type, OWL_ObjectProperty>>,
      <<pDetectedByNap, RDF_type, OWL_ObjectProperty>>},
     {StrategicDeclaration, <<pDetectsNap, OWL_inverseOf, pDetectedByNap>>,
      <<cNap, pHasNap, lFive>>}}
InitInferencer ==
    /\ engine = "strategic"
    /\ merged_graph \in RewrittenGraphs
    /\ class_mappings = EmptyMap
    /\ property_mappings \in PropertyTables
    /\ inverse_properties \in InverseTables
    /\ pc = "inverse"
    /\ ontology_contents = <<>>
    /\ ontologies = <<>>
    /\ similar_classes = <<>>
    /\ similar_properties = <<>>
    /\ idx = 0
    /\ chosen = <<>>
    /\ result = "unset"
    /\ calls = 1
    /\ limit = 1
    /\ stats = NoStats
    /\ ImprovedInit /\ DuplicateInit /\ NameInit
InferencerNext == AddInversePropertyDeclarations \/ CleanAndReturn \/ GetStatistics
SpecInferencer == InitInferencer /\ [][InferencerNext]_vars

\* normalize_name on its own, for names put together from a leading part, a
\* stem and a trailing part, joined with or without an underscore
NameHeads == {<<>>, <<"h","a","s">>, <<"i","s">>, <<"I","s">>, <<"o","f">>, <<"t","o">>, <<"f","o","r">>,
              <<"w","i","t","h">>, <<"b","y">>}
NameStems == {<<>>, <<"D","r","o","w","s","i","n","e","s","s">>,
              <<"N","a","p">>, <<"l","a","n","d">>}
NameTails == {<<>>, <<"S","t","a","t","e">>, <<"T","y","p","e">>,
              <<"S","y","s","t","e","m">>, <<"M","e","t","h","o","d">>,
              <<"P","r","o","p","e","r","t","y">>, <<"t","y","p","e">>}
NameJoints == {<<>>, <<"_">>}
Names ==
    {head \o j1 \o stem \o j2 \o tail :
        head \in NameHeads, j1 \in NameJoints, stem \in NameStems, j2 \in NameJoints,
        tail \in NameTails}

NormalizeName ==
    /\ engine = "normalizer"
    /\ nn_normalized = NoText
    /\ nn_normalized' = normalize_name(nn_name)
    /\ UNCHANGED <<nn_name, engine, strategicVars, improvedVars, duplicateVars>>

InitNormalize ==
    /\ engine = "normalizer"
    /\ StrategicInit /\ limit = 1 /\ ImprovedInit /\ DuplicateInit
    /\ nn_name \in Names
    /\ nn_normalized = NoText
SpecNormalize == InitNormalize /\ [][NormalizeName]_vars

\* a DuplicateMerger constructed on a file and given one merge call, as main()
\* of duplicate_merger.py runs it
InitDuplicates ==
    engine = "duplicate" /\ StrategicInit /\ limit = 1 /\ ImprovedInit /\ DuplicateInit /\ NameInit
SpecDuplicates == InitDuplicates /\ [][DuplicateNext]_vars

(* ------------- what a fresh StrategicOntologyMerger produces ------------ *)
RECURSIVE RewriteAll(_, _, _, _)
RewriteAll(merged, onts, cm, pm) ==
    IF onts = <<>> THEN merged
    ELSE RewriteAll(add_graph_with_mappings(merged, Head(onts), cm, pm), Tail(onts), cm, pm)

RECURSIVE MapOutcomes(_, _, _, _)
MapOutcomes(maps, groups, n, onts) ==
    IF n > Len(groups) THEN {maps}
    ELSE UNION {MapOutcomes(MapGroup(maps, groups[n], order, onts), groups, n + 1, onts) :
                   order \in Perms(groups[n].members)}

FreshStrategic ==
    [merged |-> {StrategicDeclaration}, cm |-> EmptyMap, pm |-> EmptyMap, inverse |-> EmptyMap]

\* every state in which merge_ontologies(contents) can leave a new instance
FreshOutcomes(contents) ==
    IF \E i \in 1..Len(contents) : ~contents[i].ok THEN {FreshStrategic}
    ELSE LET onts == [i \in 1..Len(contents) |-> Parse(contents[i], i)]
         IN  UNION {
               LET byKey == EntriesByKey(entries, KeysInOrder(entries))
                   inv == RecordInverses(EmptyMap, byKey, byKey, 1)
                   groups == TaggedGroups(find_similar_classes(onts), Groups(entries))
               IN  {[merged |-> clean_redundant_restrictions(
                                   add_inverse_property_declarations(
                                      RewriteAll({StrategicDeclaration}, onts, maps.cm, maps.pm),
                                      inv, maps.cm, maps.pm)),
                     cm |-> maps.cm, pm |-> maps.pm, inverse |-> inv] :
                       maps \in MapOutcomes([cm |-> EmptyMap, pm |-> EmptyMap], groups, 1, onts)}
               : entries \in PropertyEntryLists(onts)}

(* ------------------------------ properties ------------------------------ *)
MergeReturned == pc = "idle" /\ result # "unset"
MergeCompleted == pc = "idle" /\ result = "turtle"
Rewritten == pc \in {"inverse", "clean"} \/ MergeCompleted
MappingBuilt == pc = "rewrite" \/ Rewritten

SourceStatements == UNION {Statements(ontologies[i]) : i \in 1..Len(ontologies)}
MappingKeys == (DOMAIN class_mappings) \cup (DOMAIN property_mappings)

\* the entity mapping m: the class table first, then the property table
EntityMapping(x) ==
    IF x \in DOMAIN class_mappings THEN class_mappings[x]
    ELSE IF x \in DOMAIN property_mappings THEN property_mappings[x]
    ELSE x

ImageOf(t) ==
    <<EntityMapping(t[1]), EntityMapping(t[2]),
      IF t[3].k = "uri" THEN EntityMapping(t[3]) ELSE t[3]>>

InverseAnnotations ==
    {<<EntityMapping(x), OWL_inverseOf, EntityMapping(inverse_properties[x])>> :
        x \in DOMAIN inverse_properties}

\* C1: once the rewriter has run over all sources of a merge on a new
\* instance, the merged graph holds the image (m(s), m(p), o') of every source
\* statement, o' = m(o) for a URI object and o' = o for a literal or anonymous
\* object, and holds nothing else but the ontology declaration and the
\* inverse-of annotations of the inferencer.
C1_RewriterImage ==
    Rewritten =>
        /\ \A t \in SourceStatements : ImageOf(t) \in merged_graph
        /\ \A t \in merged_graph :
              \/ t = StrategicDeclaration
              \/ t \in InverseAnnotations
              \/ \E u \in SourceStatements : t = ImageOf(u)

\* a merge has rewritten a subject, a predicate and a URI object, and has
\* passed a literal and an anonymous object through
C1_Witness ==
    /\ MergeCompleted
    /\ \E t \in SourceStatements : ImageOf(t)[1] # t[1] /\ ImageOf(t) \in merged_graph
    /\ \E t \in SourceStatements : ImageOf(t)[2] # t[2] /\ ImageOf(t) \in merged_graph
    /\ \E t \in SourceStatements : t[3].k = "lit" /\ ImageOf(t) \in merged_graph

\* C2: after merge_ontologies completes, no statement of the merged graph has
\* a key of class_mappings or property_mappings as subject, predicate or object.
C2_NoDanglingMapped ==
    MergeCompleted =>
        \A t \in merged_graph : \A n \in 1..3 : t[n] \notin MappingKeys

\* C3: once create_entity_mappings has run, the mapping is idempotent and no
\* node chosen as canonical is a key of the mapping tables.
C3_MappingIdempotent ==
    MappingBuilt =>
        /\ \A x \in MappingKeys : EntityMapping(EntityMapping(x)) = EntityMapping(x)
        /\ \A n \in 1..Len(chosen) : chosen[n].canonical \notin MappingKeys

\* C4: every merge_ontologies call starts from a cleared merged graph and
\* cleared caches, and leaves what a new instance leaves for the same sources.
C4_EachCallStartsCleared ==
    /\ pc = "find" =>
          /\ merged_graph = {StrategicDeclaration}
          /\ class_mappings = EmptyMap
          /\ property_mappings = EmptyMap
          /\ inverse_properties = EmptyMap
    /\ MergeReturned =>
          [merged |-> merged_graph, cm |-> class_mappings, pm |-> property_mappings,
           inverse |-> inverse_properties] \in FreshOutcomes(ontology_contents)

\* the first call on an instance leaves what a new instance leaves
C4_FirstCallFresh ==
    (MergeReturned /\ calls = 1) =>
        [merged |-> merged_graph, cm |-> class_mappings, pm |-> property_mappings,
         inverse |-> inverse_properties] \in FreshOutcomes(ontology_contents)

ImprovedMergeCompleted == engine = "improved" /\ im_pc = "idle" /\ im_result = "turtle"

\* C5: merge_ontologies resets the merged graph, entity_mappings,
\* label_to_entity, similar_entities and temp_graphs before adding a source,
\* so whatever the calls before, merge_ontologies(S) leaves the graph, the
\* tables and the statistics a new instance given S has.
C5_MergeResetsInstance ==
    /\ (engine = "improved" /\ im_pc = "adding" /\ im_pending = im_contents)
          => ImprovedSelf = FreshImproved
    /\ ImprovedMergeCompleted =>
          /\ ImprovedSelf = merge_ontologies(FreshImproved, im_contents)
          /\ improved_get_statistics(ImprovedSelf)
                = improved_get_statistics(merge_ontologies(FreshImproved, im_contents))

\* a merge completed on an instance that earlier calls had changed, and it
\* detected a duplicate among its own sources
C5_Witness ==
    /\ ImprovedMergeCompleted
    /\ im_used
    /\ entity_mappings # <<>>

\* C6: when one source fails to parse and another is valid, the merge still
\* returns a merged graph holding the rewritten statements of the valid ones.
C6_BadSourceSkipped ==
    (/\ engine = "strategic"
     /\ MergeReturned
     /\ \E i \in 1..Len(ontology_contents) : ~ontology_contents[i].ok
     /\ \E i \in 1..Len(ontology_contents) : ontology_contents[i].ok)
    => /\ result = "turtle"
       /\ \A i \in 1..Len(ontology_contents) :
             ontology_contents[i].ok =>
                \A t \in Statements(Parse(ontology_contents[i], i)) :
                    ImageOf(t) \in merged_graph

\* the same for ImprovedOntologyMerger, whose add_ontology catches the parse
\* error: the statements of the valid sources arrive, subject and URI object
\* mapped through entity_mappings as they stood when the source was added
ImprovedSkipsBadSource ==
    (/\ ImprovedMergeCompleted
     /\ \E i \in 1..Len(im_contents) : ~im_contents[i].ok
     /\ \E i \in 1..Len(im_contents) : im_contents[i].ok)
    => /\ Len(temp_graphs) = Cardinality({i \in 1..Len(im_contents) : im_contents[i].ok})
       /\ \A n \in 1..Len(temp_graphs) : \A t \in Statements(temp_graphs[n]) :
             \E u \in Range(im_merged_graph) :
                /\ u[2] = t[2]
                /\ u[1] \in {t[1]} \cup DictVals(entity_mappings)
                /\ u[3] \in {t[3]} \cup DictVals(entity_mappings)

ZeroStrategicStats ==
    [classes |-> 0, object_properties |-> 0, datatype_properties |-> 0,
     inverse_properties |-> 0, class_mappings |-> 0, property_mappings |-> 0,
     total_triples |-> 0]
ZeroImprovedStats ==
    [classes |-> 0, object_properties |-> 0, datatype_properties |-> 0, individuals |-> 0,
     situation_classes |-> 0, event_classes |-> 0, duplicates_detected |-> 0,
     total_triples |-> 0]

StrategicEmptyMergeDone ==
    engine = "strategic" /\ MergeReturned /\ ontology_contents = <<>>
ImprovedEmptyMergeDone == ImprovedMergeCompleted /\ im_contents = <<>>

C7_WitnessImproved == ImprovedEmptyMergeDone /\ im_used

\* C8: every group of find_similar_classes and find_similar_properties has at
\* least two distinct nodes.
C8_GroupsHaveTwoNodes ==
    /\ \A n \in 1..Len(similar_classes) : Cardinality(similar_classes[n].members) >= 2
    /\ \A n \in 1..Len(similar_properties) : Cardinality(similar_properties[n].members) >= 2

\* the score of the canonical selector, stated over the statements of the
\* source graphs
StatementScore(e) ==
    LET In(i) == Statements(ontologies[i])
        Bonus(i, p) == IF \E t \in In(i) : t[1] = e /\ t[2] = p THEN 2 ELSE 0
        Of(i) == Cardinality({t \in In(i) : t[1] = e}) + Bonus(i, RDFS_label)
                 + Bonus(i, RDFS_comment)
        Sum[i \in 0..Len(ontologies)] == IF i = 0 THEN 0 ELSE Sum[i - 1] + Of(i)
    IN  Sum[Len(ontologies)]

\* C9: choose_canonical_entity returns one member of the group, and no member
\* has a greater score: statements as subject, plus 2 for a label, plus 2 for
\* a comment, per source graph.
C9_CanonicalHasMaxScore ==
    \A n \in 1..Len(chosen) :
        /\ chosen[n].canonical \in chosen[n].members
        /\ \A e \in chosen[n].members : StatementScore(e) <= StatementScore(chosen[n].canonical)

\* a canonical node was chosen over a member of smaller score, where the
\* winner was not the head of the list
C9_Witness ==
    \E n \in 1..Len(chosen) :
        /\ chosen[n].order[1] # chosen[n].canonical
        /\ StatementScore(chosen[n].order[1]) < StatementScore(chosen[n].canonical)

\* first-seen order of the members of a group: source graph by source graph,
\* and within a graph in the order of the type declarations
DeclarationEntries(kind) ==
    LET Declared(g) ==
            IF kind = "class" THEN SubjectsSeq(g, RDF_type, OWL_Class)
            ELSE LET decl == SelectSeq(g, LAMBDA t :
                                 t[2] = RDF_type
                                 /\ t[3] \in {OWL_ObjectProperty, OWL_DatatypeProperty})
                 IN  [n \in 1..Len(decl) |-> decl[n][1]]
        All[i \in 0..Len(ontologies)] ==
            IF i = 0 THEN <<>> ELSE All[i - 1] \o Declared(ontologies[i])
    IN  All[Len(ontologies)]

FirstSeenBest(c) ==
    LET seen == DeclarationEntries(c.kind)
        Top(e) == e \in c.members
                  /\ \A x \in c.members : StatementScore(x) <= StatementScore(e)
        first == CHOOSE i \in 1..Len(seen) :
                     Top(seen[i]) /\ \A j \in 1..(i - 1) : ~Top(seen[j])
    IN  seen[first]

\* C10: the canonical node is a function of the group and the source graphs:
\* among the members of greatest score, the one seen first.
C10_TiesGoToFirstSeen ==
    \A n \in 1..Len(chosen) : chosen[n].canonical = FirstSeenBest(chosen[n])

(* --------------------- DuplicateMerger: properties ---------------------- *)
\* the preferences name a member of the group as the node to keep
PreferredIsMember(preferences, label, uris) ==
    /\ DictHas(preferences, label)
    /\ URIRef(DictGet(preferences, label)) \in Range(uris)

Mentions(t, uri) == t[1] = uri \/ t[3] = uri

\* the group the loop of merge_all_duplicates treats next
NextGroup == duplicates[dm_idx + 1]

\* C11: when the preferences hold an entry for the group's name and the
\* preferred node is a member of the group, _merge_duplicate_set keeps that
\* node as primary, wherever it stands in the group and whatever its counts:
\* the statements of the primary stay, and every other member is merged into
\* it and is gone as subject and as object.
C11_PreferredMemberIsPrimary ==
    [][(/\ dm_pc = "merging"
        /\ dm_call.op = "all"
        /\ dm_idx' = dm_idx + 1
        /\ PreferredIsMember(dm_call.preferences, NextGroup.key, NextGroup.val))
       => LET preferred == URIRef(DictGet(dm_call.preferences, NextGroup.key))
              others == Range(NextGroup.val) \ {preferred}
          IN  /\ dm_log' = Append(dm_log, [label |-> NextGroup.key, uris |-> NextGroup.val,
                                           primary |-> preferred])
              /\ dm_graph' = MergeInto(dm_graph, preferred, NextGroup.val)
              /\ \A t \in dm_graph : (\A u \in others : ~Mentions(t, u)) => t \in dm_graph'
              /\ \A t \in dm_graph' : \A u \in others : ~Mentions(t, u)
              /\ \A t \in dm_graph : \A u \in others :
                    (t[1] = u /\ t[2] \notin {RDF_type, RDFS_label} /\ t[3] \notin others)
                    => <<preferred, t[2], t[3]>> \in dm_graph']_vars

\* a preferred node that stood second in its group, with fewer statements
\* than the first, was kept and the first merged into it
C11_Witness ==
    /\ engine = "duplicate"
    /\ dm_result = "saved"
    /\ \E n \in 1..Len(dm_log) :
          /\ PreferredIsMember(dm_call.preferences, dm_log[n].label, dm_log[n].uris)
          /\ dm_log[n].primary = dm_log[n].uris[2]
          /\ dm_log[n].primary # dm_log[n].uris[1]
          /\ Outgoing(dm_input, dm_log[n].primary) + Incoming(dm_input, dm_log[n].primary)
                < Outgoing(dm_input, dm_log[n].uris[1]) + Incoming(dm_input, dm_log[n].uris[1])
          /\ \A t \in dm_graph : ~Mentions(t, dm_log[n].uris[1])
          /\ \E t \in dm_graph : t[1] = dm_log[n].primary /\ t[2] = dRel

MergeAllSaved == engine = "duplicate" /\ dm_call.op = "all" /\ dm_result = "saved"

\* the groups whose preferred node is none of their members
StrayGroups(preferences) ==
    {n \in 1..Len(duplicates) :
        /\ DictHas(preferences, duplicates[n].key)
        /\ URIRef(DictGet(preferences, duplicates[n].key)) \notin Range(duplicates[n].val)}

\* the preferences without the entries of those groups
WithoutStray(preferences) ==
    SelectSeq(preferences,
              LAMBDA e : \A n \in StrayGroups(preferences) : duplicates[n].key # e.key)

\* C12: a preferred node that is no member of its group raises no error:
\* merge_all_duplicates runs to the save, that group is merged into its first
\* node, and the graph is the one the call leaves without that entry.
C12_StrayPreferenceFallsBack ==
    /\ (engine = "duplicate" /\ dm_call.op = "all" /\ dm_pc = "done" /\ duplicates # <<>>)
          => dm_result = "saved"
    /\ (MergeAllSaved /\ StrayGroups(dm_call.preferences) # {}) =>
          /\ Len(dm_log) = Len(duplicates)
          /\ \A n \in StrayGroups(dm_call.preferences) :
                /\ dm_log[n].label = duplicates[n].key
                /\ dm_log[n].primary = duplicates[n].val[1]
          /\ dm_graph = merge_all_duplicates(dm_input, duplicates,
                                             WithoutStray(dm_call.preferences))
          /\ dm_graph = Fold(LAMBDA g, e : MergeInto(g, e.primary, e.uris), dm_input, dm_log)

\* a call whose preferences name a stranger for one group and a member, not
\* the first, for another
C12_Witness ==
    /\ MergeAllSaved
    /\ StrayGroups(dm_call.preferences) # {}
    /\ \E n \in 1..Len(dm_log) :
          /\ n \notin StrayGroups(dm_call.preferences)
          /\ dm_log[n].primary # dm_log[n].uris[1]
    /\ \E n \in StrayGroups(dm_call.preferences) :
          \A t \in dm_graph : ~Mentions(t, dm_log[n].uris[2])

\* the statements of the loaded graph in which a node is subject or object,
\* and those in which it is subject
Connections(uri) == Cardinality({t \in dm_input : Mentions(t, uri)})
Properties(uri) == Cardinality({t \in dm_input : t[1] = uri})

\* C13: merge_with_strategy keeps, for every group, under 'first' the first
\* node of the group, under 'most_connected' a member with the most
\* statements of the loaded graph as subject or object, under
\* 'most_properties' a member with the most statements of the loaded graph
\* as subject, in whatever order the groups are treated.
C13_StrategyPrimary ==
    (engine = "duplicate" /\ dm_call.op = "strategy") =>
        \A n \in 1..Len(dm_log) :
            LET e == dm_log[n]
            IN  /\ e.primary \in Range(e.uris)
                /\ dm_call.strategy = "first" => e.primary = e.uris[1]
                /\ dm_call.strategy = "most_connected" =>
                      \A u \in Range(e.uris) : Connections(u) <= Connections(e.primary)
                /\ dm_call.strategy = "most_properties" =>
                      \A u \in Range(e.uris) : Properties(u) <= Properties(e.primary)

\* under 'first' the first node of every group is kept
StrategyFirstKeepsFirst ==
    (engine = "duplicate" /\ dm_call.op = "strategy" /\ dm_call.strategy = "first") =>
        \A n \in 1..Len(dm_log) : dm_log[n].primary = dm_log[n].uris[1]

\* the counts of the graph as it stands when the group is reached are what
\* the two other strategies go by
StrategyGoesByCurrentGraph ==
    [][(dm_pc = "merging" /\ dm_call.op = "strategy" /\ dm_idx' = dm_idx + 1)
       => LET chosen_uri == dm_log'[Len(dm_log')].primary
              Count(u) == IF dm_call.strategy = "most_connected"
                          THEN Incoming(dm_graph, u) + Outgoing(dm_graph, u)
                          ELSE IF dm_call.strategy = "most_properties"
                               THEN Outgoing(dm_graph, u)
                               ELSE 0
          IN  \A u \in Range(NextGroup.val) : Count(u) <= Count(chosen_uri)]_vars

\* on the file DupRivals, under the two counting strategies: in
\* whichever order the groups are reached, one of them keeps a member that
\* another member outnumbers in the loaded graph
RivalsKeepTheGreatest ==
    (/\ engine = "duplicate"
     /\ dm_input = Range(DupRivals.g)
     /\ dm_call.op = "strategy"
     /\ dm_call.strategy \in {"most_connected", "most_properties"}
     /\ dm_result = "saved")
    => \E n \in 1..Len(dm_log) : \E u \in Range(dm_log[n].uris) :
          /\ Properties(u) > Properties(dm_log[n].primary)
          /\ Connections(u) > Connections(dm_log[n].primary)

(* ------------------- StrategicOntologyMerger: inverses ------------------ *)
\* C14: add_inverse_property_declarations adds, for every recorded pair
\* (p1, p2), the statement (m(p1), inverse-of, m(p2)) when m(p1) and m(p2)
\* differ and nothing when they are equal; it adds no other statement and
\* removes none.
C14_InverseDeclarations ==
    [][(pc = "inverse" /\ pc' = "clean")
       => merged_graph' =
             merged_graph \cup
             {<<EntityMapping(p1), OWL_inverseOf, EntityMapping(inverse_properties[p1])>> :
                 p1 \in {x \in DOMAIN inverse_properties :
                            EntityMapping(x) # EntityMapping(inverse_properties[x])}}]_vars

\* the declarations have been added: one for a pair whose first property is
\* mapped, none for a pair mapped to one property
C14_Witness ==
    /\ engine = "strategic"
    /\ pc = "clean"
    /\ \E p1 \in DOMAIN inverse_properties :
          /\ EntityMapping(p1) # p1
          /\ EntityMapping(p1) # EntityMapping(inverse_properties[p1])
          /\ <<EntityMapping(p1), OWL_inverseOf, EntityMapping(inverse_properties[p1])>>
                \in merged_graph
    /\ \E p1 \in DOMAIN inverse_properties :
          /\ p1 # inverse_properties[p1]
          /\ EntityMapping(p1) = EntityMapping(inverse_properties[p1])
          /\ <<EntityMapping(p1), OWL_inverseOf, EntityMapping(p1)>> \notin merged_graph

\* the properties the sources declare, and the raw names they go by
DeclaredProperties ==
    {p \in UNION {PropertySubjects(ontologies[i]) : i \in 1..Len(ontologies)} : IsURIRef(p)}
RawNames(p) ==
    {OrElse(get_label(ontologies[i], p), AfterLastHash(p.v)) :
        i \in {j \in 1..Len(ontologies) : p \in PropertySubjects(ontologies[j])}}

\* the raw name of b is that of a with a forward token replaced by its
\* backward token
RelatedByTokens(a, b) ==
    \E k \in 1..Len(InversePatterns) : \E na \in RawNames(a) : \E nb \in RawNames(b) :
        /\ Contains(na, InversePatterns[k][1])
        /\ nb = Replace(na, InversePatterns[k][1], InversePatterns[k][2])

Recorded(a, b) == a \in DOMAIN inverse_properties /\ inverse_properties[a] = b
Annotated(a, b) == <<EntityMapping(a), OWL_inverseOf, EntityMapping(b)>> \in merged_graph

\* C15: two distinct declared properties whose raw names are related by a
\* forward/backward token pair are recorded as a candidate inverse pair, and
\* after merge_ontologies the merged graph holds an inverse-of annotation
\* between their canonical properties.
C15_InversePairFound ==
    MergeCompleted =>
        \A a \in DeclaredProperties : \A b \in DeclaredProperties :
            (a # b /\ RelatedByTokens(a, b)) =>
                /\ Recorded(a, b) \/ Recorded(b, a)
                /\ Annotated(a, b) \/ Annotated(b, a)

\* no merge records a candidate inverse pair
NoPairIsEverRecorded == engine = "strategic" => inverse_properties = EmptyMap

\* C16: after merge_ontologies the merged graph holds no statement
\* (p, inverse-of, p), be it one the inferencer added or the rewritten image
\* of an inverse-of statement of a source.
C16_NoSelfInverse ==
    MergeCompleted => \A t \in merged_graph : t[2] = OWL_inverseOf => t[1] # t[3]

\* the inferencer itself adds no statement (p, inverse-of, p)
InferencerAddsNoSelfInverse ==
    [][(pc = "inverse" /\ pc' = "clean")
       => \A t \in merged_graph' \ merged_graph : t[1] # t[3]]_vars

DeclaredNodes ==
    UNION {{t[1] : t \in {u \in Statements(ontologies[i]) :
                            /\ u[2] = RDF_type
                            /\ u[3] \in {OWL_Class, OWL_ObjectProperty, OWL_DatatypeProperty}
                            /\ IsURIRef(u[1])}} : i \in 1..Len(ontologies)}
Nameless ==
    {x \in DeclaredNodes :
        \E i \in 1..Len(ontologies) :
            /\ \E t \in Statements(ontologies[i]) : t[1] = x /\ t[2] = RDF_type
            /\ normalize_name(OrElse(get_label(ontologies[i], x), AfterLastHash(x.v))) = <<>>}

\* C18: a class or property whose display name is empty after normalization
\* is in no group of find_similar_classes / find_similar_properties, and is
\* never mapped to another node nor chosen as canonical for one.
C18_NamelessInNoGroup ==
    engine = "strategic" =>
        /\ \A n \in 1..Len(similar_classes) : similar_classes[n].members \cap Nameless = {}
        /\ \A n \in 1..Len(similar_properties) :
              similar_properties[n].members \cap Nameless = {}
        /\ MappingKeys \cap Nameless = {}
        /\ \A n \in 1..Len(chosen) : chosen[n].canonical \notin Nameless

MappingValues ==
    {class_mappings[x] : x \in DOMAIN class_mappings}
    \cup {property_mappings[x] : x \in DOMAIN property_mappings}

\* C19: no anonymous node is a member of a duplicate group, nor a key or a
\* value of the entity mapping, and every anonymous subject or object of a
\* source statement stands unchanged in the merged graph.
C19_AnonymousNodesUntouched ==
    engine = "strategic" =>
        /\ \A n \in 1..Len(similar_classes) : \A x \in similar_classes[n].members : ~IsBNode(x)
        /\ \A n \in 1..Len(similar_properties) :
              \A x \in similar_properties[n].members : ~IsBNode(x)
        /\ \A x \in MappingKeys \cup MappingValues : ~IsBNode(x)
        /\ Rewritten =>
              \A t \in SourceStatements :
                  /\ IsBNode(t[1]) =>
                        \E u \in merged_graph :
                            u[1] = t[1] /\ u[2] = EntityMapping(t[2]) /\ u[3] = ImageOf(t)[3]
                  /\ IsBNode(t[3]) =>
                        \E u \in merged_graph :
                            u[1] = EntityMapping(t[1]) /\ u[2] = EntityMapping(t[2])
                            /\ u[3] = t[3]

\* a merge in which an anonymous class bore the name of a mapped class: it
\* stands in the merged graph as subject, and as object of a statement whose
\* subject was rewritten
C19_Witness ==
    /\ MergeCompleted
    /\ \E t \in SourceStatements :
          /\ IsBNode(t[1]) /\ t[2] = RDF_type /\ t[3] = OWL_Class
          /\ t \in merged_graph
          /\ \E x \in MappingKeys :
                normalize_name(AfterLastHash(x.v))
                   = normalize_name(get_label(ontologies[1], t[1]))
    /\ \E t \in SourceStatements :
          /\ IsBNode(t[3])
          /\ EntityMapping(t[1]) # t[1]
          /\ <<EntityMapping(t[1]), t[2], t[3]>> \in merged_graph

\* a stop word is a token of a name where the name ends, an upper-case letter
\* begins the next word, or an underscore separates the words
IsUpperChar(c) == \E i \in 1..Len(UpperChars) : UpperChars[i] = c
LeadingTokens(text) ==
    {i \in 1..Len(StopPrefixes) :
        /\ StartsWith(ToLower(text), StopPrefixes[i])
        /\ \/ Len(text) = Len(StopPrefixes[i])
           \/ IsUpperChar(text[Len(StopPrefixes[i]) + 1])
           \/ text[Len(StopPrefixes[i]) + 1] = "_"}
TrailingTokens(text) ==
    {i \in 1..Len(StopSuffixes) :
        /\ EndsWith(ToLower(text), StopSuffixes[i])
        /\ \/ Len(text) = Len(StopSuffixes[i])
           \/ IsUpperChar(text[Len(text) - Len(StopSuffixes[i]) + 1])
           \/ text[Len(text) - Len(StopSuffixes[i])] = "_"}
WithoutLeadingToken(text) ==
    IF LeadingTokens(text) = {} THEN text
    ELSE LET rest == DropFirst(text, Len(StopPrefixes[CHOOSE i \in LeadingTokens(text) :
                                             \A j \in LeadingTokens(text) : i <= j]))
         IN  IF rest # <<>> /\ Head(rest) = "_" THEN Tail(rest) ELSE rest
WithoutTrailingToken(text) ==
    IF TrailingTokens(text) = {} THEN text
    ELSE LET rest == DropLast(text, Len(StopSuffixes[CHOOSE i \in TrailingTokens(text) : TRUE]))
         IN  IF rest # <<>> /\ rest[Len(rest)] = "_" THEN DropLast(rest, 1) ELSE rest
TokensRemoved(text) == ToLower(WithoutTrailingToken(WithoutLeadingToken(text)))

\* C20: normalize_name returns the lowercased name with at most one leading
\* stop-prefix token and at most one trailing stop-suffix token removed and
\* nothing else; hasDrowsinessState, DrowsinessType and Drowsiness all give
\* 'drowsiness'.
C20_OnlyStopTokensRemoved ==
    (engine = "normalizer" /\ nn_normalized # NoText) =>
        nn_normalized = TokensRemoved(nn_name)

\* the three names of the example do give 'drowsiness'
DrowsinessExamples ==
    LET drowsiness == <<"D","r","o","w","s","i","n","e","s","s">>
    IN  (/\ engine = "normalizer"
         /\ nn_normalized # NoText
         /\ nn_name \in {<<"h","a","s">> \o drowsiness \o <<"S","t","a","t","e">>,
                         drowsiness \o <<"T","y","p","e">>, drowsiness})
        => nn_normalized = ToLower(drowsiness)

\* where the stop word is a token of the name, normalize_name removes it
\* and nothing else
TokenNamesNormalized ==
    (/\ engine = "normalizer"
     /\ nn_normalized # NoText
     /\ StripStopPrefix(ToLower(nn_name)) = ToLower(WithoutLeadingToken(nn_name))
     /\ StripStopSuffix(ToLower(WithoutLeadingToken(nn_name)))
           = ToLower(WithoutTrailingToken(WithoutLeadingToken(nn_name))))
    => nn_normalized = TokensRemoved(nn_name)

\* the nodes that are subject of a type=Class statement of the merged graph
ClassNodes == {t[1] : t \in {u \in merged_graph : u[2] = RDF_type /\ u[3] = OWL_Class}}

\* the entries of the two tables of the entity mapping
MappingEntries ==
    {<<"class", x>> : x \in DOMAIN class_mappings}
    \cup {<<"property", x>> : x \in DOMAIN property_mappings}

\* a step in which the caller reads the statistics
StatisticsRead == stats = NoStats /\ stats' # NoStats

\* C21: after a merge has completed, get_statistics reports as total_triples
\* the number of statements of the merged graph, as classes the number of
\* distinct subjects of a type=Class statement, and as class_mappings +
\* property_mappings the number of entries of the entity mapping; the call
\* changes neither the merged graph nor the mapping.
C21_StatisticsConsistent ==
    [][StatisticsRead =>
         /\ MergeReturned
         /\ stats'.total_triples = Cardinality(merged_graph)
         /\ stats'.classes = Cardinality(ClassNodes)
         /\ stats'.class_mappings + stats'.property_mappings = Cardinality(MappingEntries)
         /\ merged_graph' = merged_graph
         /\ class_mappings' = class_mappings
         /\ property_mappings' = property_mappings]_vars

C21_Witness ==
    /\ MergeCompleted
    /\ stats # NoStats
    /\ stats.classes > 1
    /\ stats.class_mappings > 0
    /\ stats.total_triples > stats.classes
    /\ Cardinality({t \in merged_graph : t[2] = RDF_type /\ t[3] # OWL_Class}) > 1

\* the inverse-of statements of the merged graph
InverseStatements == {t \in merged_graph : t[2] = OWL_inverseOf}

\* C22: the inverse_properties count of get_statistics is the number of
\* inverse-of statements of the merged graph.
C22_InverseCountIsStatements ==
    (MergeReturned /\ stats # NoStats) =>
        stats.inverse_properties = Cardinality(InverseStatements)

\* what the count is: the number of distinct subjects of inverse-of statements
InverseCountIsSubjects ==
    (MergeReturned /\ stats # NoStats) =>
        stats.inverse_properties = Cardinality({t[1] : t \in InverseStatements})

(* --------------------- DuplicateMerger: the merged graph ---------------- *)
\* a step of either loop that merges a group, and the entry it logs
GroupMerged == dm_pc = "merging" /\ dm_idx' = dm_idx + 1 /\ Len(dm_log') = Len(dm_log) + 1
LastMerged == dm_log'[Len(dm_log')]

\* the statement t with the node c in the place of every node of `away`
Substituted(t, away, c) ==
    <<IF t[1] \in away THEN c ELSE t[1], t[2], IF t[3] \in away THEN c ELSE t[3]>>

\* C23: for every duplicate node n that _merge_entities merges into the
\* primary c, every statement that had n as subject or as object, type
\* statements included, has its counterpart with c in the place of n in the
\* graph after the merge.
C23_UnionPreserved ==
    [][GroupMerged =>
         LET away == Range(LastMerged.uris) \ {LastMerged.primary}
         IN  \A t \in dm_graph :
                (t[1] \in away \/ t[3] \in away)
                => Substituted(t, away, LastMerged.primary) \in dm_graph']_vars

\* what is carried over: the statements in which n is object, and those in
\* which n is subject under a predicate other than type and label
RelationshipsPreserved ==
    [][GroupMerged =>
         LET away == Range(LastMerged.uris) \ {LastMerged.primary}
         IN  \A t \in dm_graph :
                (t[3] \in away \/ (t[1] \in away /\ t[2] \notin {RDF_type, RDFS_label}))
                => Substituted(t, away, LastMerged.primary) \in dm_graph']_vars

\* on the file DupTyped the class B, merged into the untyped A, leaves no
\* type statement behind
TypedLosesType ==
    (engine = "duplicate" /\ dm_input = Range(DupTyped.g) /\ dm_result = "saved"
     /\ dm_log[1].primary = dA)
    => /\ \A t \in dm_graph : t[2] # RDF_type
       /\ <<dC, dRel, dA>> \in dm_graph

\* the nodes merged away so far: the members of a merged group other than
\* its primary
MergedAway ==
    UNION {Range(dm_log[n].uris) \ {dm_log[n].primary} : n \in 1..Len(dm_log)}

MergeSaved == engine = "duplicate" /\ dm_result = "saved"

\* C24: after merge_all_duplicates or merge_with_strategy has gone through
\* all groups, no statement of the graph has a merged-away node as subject,
\* predicate or object.
C24_NoMergedAwayNodeLeft ==
    MergeSaved =>
        \A t \in dm_graph : \A i \in 1..3 : t[i] \notin MergedAway

\* where every node has one label and no labelled node is a predicate, no
\* merged-away node is left
SingleLabelsLeaveNothing ==
    (/\ MergeSaved
     /\ \A t, u \in dm_input : (t[2] = RDFS_label /\ u[2] = RDFS_label /\ t[1] = u[1]) => t = u
     /\ \A t, u \in dm_input : u[2] = RDFS_label => t[2] # u[1])
    => \A t \in dm_graph : \A i \in 1..3 : t[i] \notin MergedAway

(* ---------------- StrategicOntologyMerger: order of the stages ---------- *)
\* the place of a stage in merge_ontologies
StageRank(stage) ==
    CASE stage = "find" -> 1
      [] stage = "map" -> 2
      [] stage = "rewrite" -> 3
      [] stage = "inverse" -> 4
      [] stage = "clean" -> 5
      [] OTHER -> 0

\* C25: within one merge_ontologies call the stages run in sequence: nothing
\* is written into the merged graph before the entity mapping is complete,
\* the mapping is not modified once rewriting has started, the inverse-of
\* annotations are added only after every source statement has been
\* rewritten, and the restriction cleanup runs last.
C25_StagesInSequence ==
    [][/\ pc # "idle" =>
            \/ StageRank(pc') >= StageRank(pc)
            \/ pc = "clean" /\ pc' = "idle"
       /\ merged_graph' # merged_graph => pc \in {"rewrite", "inverse", "clean"}
       /\ (class_mappings' # class_mappings \/ property_mappings' # property_mappings)
             => pc = "map" /\ pc' \in {"map", "rewrite", "inverse"}
       /\ pc = "rewrite" => class_mappings' = class_mappings
                            /\ property_mappings' = property_mappings
       /\ pc = "inverse" =>
             /\ \A t \in SourceStatements : ImageOf(t) \in merged_graph
             /\ pc' = "clean"
       /\ pc = "clean" => pc' = "idle" /\ result' = "turtle"]_vars

\* a merge of two sources with a duplicate group has run through all stages
C25_Witness ==
    /\ MergeCompleted
    /\ Len(ontologies) = 2
    /\ Statements(ontologies[1]) # Statements(ontologies[2])
    /\ MappingKeys # {}
    /\ \E t \in SourceStatements : ImageOf(t) # t

(* ------------------ ImprovedOntologyMerger: the mapping ----------------- *)
\* C26: after any add_ontology calls, and after merge_ontologies, no value
\* of entity_mappings is also one of its keys: a node that stands for a
\* duplicate is itself not in the table, mapped neither to another node nor
\* to itself.
C26_CanonicalNotMapped ==
    engine = "improved" => DictVals(entity_mappings) \cap DictKeys(entity_mappings) = {}

\* a key that is a value is mapped to itself, in the runs over ImprovedDocs
MappedValuesAreSelfMapped ==
    engine = "improved" =>
        \A x \in DictVals(entity_mappings) \cap DictKeys(entity_mappings) :
            DictGet(entity_mappings, x) = x

\* the nodes entity_mappings maps to another node
MappedElsewhere ==
    {x \in DictKeys(entity_mappings) : DictGet(entity_mappings, x) # x}

\* C27: after merge_ontologies of the improved merger has completed, no
\* statement of the merged graph has, as subject, predicate or object, a node
\* that entity_mappings maps to a different node.
C27_NoMappedNodeLeft ==
    ImprovedMergeCompleted =>
        \A t \in Range(im_merged_graph) : \A i \in 1..3 : t[i] \notin MappedElsewhere

\* DocEvent, then DocAlias: the statement of the first source that has
\* Alert as object stays, and Alert is mapped to DrowsyEvent by the second
EarlierSourceKeepsMapped ==
    (ImprovedMergeCompleted /\ im_contents = <<DocEvent, DocAlias>>)
    => /\ DictGet(entity_mappings, cAlert) = cDrowsyEvent
       /\ <<cDrowsyEvent, pRelatesTo, cAlert>> \in Range(im_merged_graph)

\* DocDrowsy, then DocProperty: the property drowsyProp is mapped to the
\* class Drowsy and stays as the predicate of its statement
PredicateKeepsMapped ==
    (ImprovedMergeCompleted /\ im_contents = <<DocDrowsy, DocProperty>>)
    => /\ DictGet(entity_mappings, pDrowsyProp) = cDrowsy
       /\ <<cAlert, pDrowsyProp, cDrowsyEvent>> \in Range(im_merged_graph)

\* the types the sources give a node
SourceTypes(x) ==
    UNION {{t[3] : t \in {u \in Range(temp_graphs[n]) : u[1] = x /\ u[2] = RDF_type}} :
              n \in 1..Len(temp_graphs)}
TypedClass(x) == OWL_Class \in SourceTypes(x)
TypedProperty(x) == SourceTypes(x) \cap {OWL_ObjectProperty, OWL_DatatypeProperty} # {}

\* the entries of entity_mappings between a class and a property
KindMismatches ==
    {n \in 1..Len(entity_mappings) :
        \/ TypedClass(entity_mappings[n].key) /\ TypedProperty(entity_mappings[n].val)
        \/ TypedProperty(entity_mappings[n].key) /\ TypedClass(entity_mappings[n].val)}

\* C28: add_ontology maps an entity to a registered entity only when the two
\* are of one kind: no entry of entity_mappings relates a class to a property
\* or a property to a class, whichever rule produced the match.
C28_SameKindOnly ==
    engine = "improved" => KindMismatches = {}

\* an entry between a class and a property comes from the exact match of
\* the labels: the key carries, in some source, the label under which the
\* value is registered
MismatchesShareTheLabel ==
    engine = "improved" =>
        \A n \in KindMismatches :
            \E m \in 1..Len(temp_graphs) :
                LET normalized_label ==
                        normalize_text(get_label(temp_graphs[m], entity_mappings[n].key))
                IN  /\ DictHas(label_to_entity, normalized_label)
                    /\ DictGet(label_to_entity, normalized_label) = entity_mappings[n].val

(* --------------- StrategicOntologyMerger: order of the sources ---------- *)
\* the members of a group that no member outscores
TopScoring(grp) ==
    {x \in grp.members : \A y \in grp.members : Score(y, ontologies) <= Score(x, ontologies)}
SingleTopEverywhere == \A n \in 1..Len(AllGroups) : Cardinality(TopScoring(AllGroups[n])) = 1

\* the sources in another order: the source at place perm[j] comes j-th
Reordered(contents, perm) == [j \in 1..Len(contents) |-> contents[perm[j]]]

\* an anonymous node of the j-th graph of the reordered run, named as the run
\* in the given order names it
BackNamed(term, perm) ==
    IF IsBNode(term)
    THEN LET j == CHOOSE i \in 1..Len(DigitChars) : DigitChars[i] = term.v[Len(term.v)]
         IN  BNode(DropLast(term.v, 1) \o <<DigitChars[perm[j]]>>)
    ELSE term
BackNamedGraph(graph, perm) ==
    {<<BackNamed(t[1], perm), t[2], BackNamed(t[3], perm)>> : t \in graph}

\* C29: for two orders of the same sources, each given to a new instance, if
\* every duplicate group has a single top-scoring member, both runs leave the
\* same class_mappings, the same property_mappings and the same merged graph.
C29_SourceOrderIrrelevant ==
    (MergeCompleted /\ SingleTopEverywhere) =>
        \A perm \in Perms(1..Len(ontology_contents)) :
            \A out \in FreshOutcomes(Reordered(ontology_contents, perm)) :
                /\ out.cm = class_mappings
                /\ out.pm = property_mappings
                /\ BackNamedGraph(out.merged, perm) = merged_graph

\* DocNapRich and DocDoze: Nap is outscored in the group 'nap' and in the
\* group 'doze', and is mapped to the canonical node of whichever group the
\* order of the sources puts last
LastGroupWins ==
    (MergeCompleted /\ Len(ontology_contents) = 2
     /\ {ontology_contents[1], ontology_contents[2]} = {DocNapRich, DocDoze})
    => /\ SingleTopEverywhere
       /\ class_mappings[cNap] = IF ontology_contents[1] = DocNapRich THEN cDoze ELSE cNapState

\* where no node is a member of two groups, the order of the sources is
\* of no effect
DisjointGroupsOrderIrrelevant ==
    (/\ MergeCompleted
     /\ SingleTopEverywhere
     /\ \A n, m \in 1..Len(AllGroups) :
           n # m => AllGroups[n].members \cap AllGroups[m].members = {})
    => \A perm \in Perms(1..Len(ontology_contents)) :
          \A out \in FreshOutcomes(Reordered(ontology_contents, perm)) :
             /\ out.cm = class_mappings
             /\ out.pm = property_mappings
             /\ BackNamedGraph(out.merged, perm) = merged_graph

====
